---- MODULE Spec2Model ----
(***************************************************************************)
(* The function-consensus reactor (package fnConsensus, reactor.go): a set *)
(* of nodes, each holding a ReactorState, a progress routine, commit       *)
(* routines and two inbound gossip handlers.  One FnID is registered.      *)
(* Every handler runs under the state mutex, so each is one atomic action; *)
(* the progress routine releases the mutex between its tick and propose,   *)
(* and a commit routine between its select and handleCommit, so those are  *)
(* separate actions.                                                       *)
(***************************************************************************)
EXTENDS Integers, Sequences, FiniteSets, TLC

(***************************************************************************)
(* Program constants (seconds).                                            *)
(***************************************************************************)
StartingNonce == 1
CommitRoutineExecutionBufferSeconds == 1
ProgressIntervalInSeconds == 60 + CommitRoutineExecutionBufferSeconds
ExpiresIn == 50 + CommitRoutineExecutionBufferSeconds
ExpiresInForSync == 40
MaxAllowedTimeDriftInFuture == 10
Maj23SigningThreshold == "Maj23"
AllSigningThreshold == "All"
\* a threshold that names neither: the zero value of SigningThreshold
UnsetSigningThreshold == ""

(***************************************************************************)
(* Bounds of the model.                                                    *)
(***************************************************************************)
\* the clock stops advancing here
MaxTime == 125
\* vote-set IDs that propose may generate in one behaviour
MaxProposals == 1
\* messages the send queues hold; peer.Send fails (and is ignored) when they are full
MaxInFlight == 1
\* the send queues of a network that loses no message of one round
LiveQueueCapacity == 8

\* node addresses; every node is connected to every other node
Nodes == {1, 2, 3}
\* what Fn.GetMessageAndSignature may observe
Messages == {"mA", "mB"}

Nil == [nil |-> TRUE]
NoAddr == 0
NoSig == <<>>

(***************************************************************************)
(* Validator sets (types.ValidatorSet): ordered addresses with powers.     *)
(***************************************************************************)
RECURSIVE SumSeq(_)
SumSeq(s) == IF s = <<>> THEN 0 ELSE Head(s) + SumSeq(Tail(s))

ValidatorSetOf(addrs, powers) == [addrs |-> addrs, powers |-> powers]

\* ValidatorSet.Hash: a digest that separates different sets
Hash(set) == <<"valhash", set.addrs, set.powers>>

TotalVotingPower(set) == SumSeq(set.powers)

\* ValidatorSet.GetByAddress: the 0-based index, or -1
GetByAddress(set, addr) ==
    IF \E p \in 1..Len(set.addrs) : set.addrs[p] = addr
    THEN (CHOOSE p \in 1..Len(set.addrs) : set.addrs[p] = addr) - 1
    ELSE -1

\* sha512 of a message: an injective digest
calculateMessageHash(message) == <<"sha512", message>>

\* the oracle signature of node n over a message
OracleSignature(n, message) == <<"sig", n, message>>

(***************************************************************************)
(* FnVoteSet.  Votes[p] is the slot of validator index p-1: "U" (unvoted), *)
(* "A" (agree) or "D" (disagree).  Every vote set of the model is built by *)
(* NewVoteSet, AddVote and Merge of honest nodes of one chain, so ChainID, *)
(* FnID, the context size and the per-slot signatures always verify.       *)
(***************************************************************************)
NewVoteSet(id, nonce, t, validatorIndex, ctx, hash, signature, set, proposalInfo) ==
    [ID |-> id, Nonce |-> nonce, CreationTime |-> t,
     ExecutionContext |-> ctx, Hash |-> hash,
     ValidatorsHash |-> Hash(set), ValidatorAddresses |-> set.addrs,
     Votes |-> [p \in 1..Len(set.addrs) |-> IF p = validatorIndex + 1 THEN "A" ELSE "U"],
     OracleSignatures |-> [p \in 1..Len(set.addrs) |->
                              IF p = validatorIndex + 1 THEN signature ELSE NoSig],
     ProposalInfo |-> proposalInfo]

VotedPower(vs, set, types) ==
    SumSeq([p \in 1..Len(vs.Votes) |-> IF vs.Votes[p] \in types THEN set.powers[p] ELSE 0])

MeetsThreshold(threshold, power, total) ==
    CASE threshold = Maj23SigningThreshold -> 3 * power > 2 * total
      [] threshold = AllSigningThreshold -> power >= total
      [] OTHER -> FALSE

HasConverged(vs, threshold, set) ==
    /\ vs.ValidatorsHash = Hash(set)
    /\ MeetsThreshold(threshold, VotedPower(vs, set, {"A", "D"}), TotalVotingPower(set))

IsAgree(vs, threshold, set) ==
    /\ vs.ValidatorsHash = Hash(set)
    /\ MeetsThreshold(threshold, VotedPower(vs, set, {"A"}), TotalVotingPower(set))

IsDisagree(vs, threshold, set) ==
    /\ vs.ValidatorsHash = Hash(set)
    /\ MeetsThreshold(threshold, VotedPower(vs, set, {"D"}), TotalVotingPower(set))

IsExpired(vs, validityPeriod, t) == t >= vs.CreationTime + validityPeriod

IsValid(vs, checkExpiration, validityPeriod, set, t) ==
    /\ vs # Nil
    /\ vs.CreationTime <= t + MaxAllowedTimeDriftInFuture
    /\ vs.ValidatorsHash = Hash(set)
    /\ checkExpiration => ~IsExpired(vs, validityPeriod, t)

NumberOfVotes(vs) == Cardinality({p \in 1..Len(vs.Votes) : vs.Votes[p] # "U"})

NumberOfAgreeVotes(vs) == Cardinality({p \in 1..Len(vs.Votes) : vs.Votes[p] = "A"})

HaveWeAlreadySigned(vs, validatorIndex) == vs.Votes[validatorIndex + 1] # "U"

\* the dense 0-based rank among the Agree voters, or -1 (an error) for a non-Agree voter
GetAgreeVoteIndexForValidatorIndex(vs, validatorIndex) ==
    IF vs.Votes[validatorIndex + 1] # "A" THEN -1
    ELSE Cardinality({p \in 1..validatorIndex : vs.Votes[p] = "A"})

\* the addresses of the validators that voted, in validator order
ActiveValidators(vs) ==
    LET voted(p) == vs.Votes[p] # "U"
        F[k \in 0..Len(vs.Votes)] ==
            IF k = 0 THEN <<>>
            ELSE IF voted(k) THEN Append(F[k - 1], vs.ValidatorAddresses[k]) ELSE F[k - 1]
    IN F[Len(vs.Votes)]

\* AddVote: [ok, vs]; fails on a nonce mismatch or an already voted slot
AddVote(vs, nonce, validatorIndex, voteType, signature) ==
    IF nonce # vs.Nonce \/ HaveWeAlreadySigned(vs, validatorIndex)
    THEN [ok |-> FALSE, vs |-> vs]
    ELSE [ok |-> TRUE,
          vs |-> [vs EXCEPT !.Votes[validatorIndex + 1] = voteType,
                            !.OracleSignatures[validatorIndex + 1] =
                                IF voteType = "A" THEN signature ELSE NoSig]]

\* Merge: [ok, changed, vs]; adopts the remote's voted slots that are unvoted here
Merge(local, remote) ==
    IF \/ local.ID # remote.ID
       \/ local.Nonce # remote.Nonce
       \/ local.CreationTime # remote.CreationTime
       \/ local.ExecutionContext # remote.ExecutionContext
       \/ local.Hash # remote.Hash
       \/ local.ValidatorsHash # remote.ValidatorsHash
    THEN [ok |-> FALSE, changed |-> FALSE, vs |-> local]
    ELSE LET adopt(p) == local.Votes[p] = "U" /\ remote.Votes[p] # "U"
         IN [ok |-> TRUE,
             changed |-> \E p \in 1..Len(local.Votes) : adopt(p),
             vs |-> [local EXCEPT
                       !.Votes = [p \in 1..Len(local.Votes) |->
                                    IF adopt(p) THEN remote.Votes[p] ELSE local.Votes[p]],
                       !.OracleSignatures = [p \in 1..Len(local.Votes) |->
                                    IF adopt(p) THEN remote.OracleSignatures[p]
                                    ELSE local.OracleSignatures[p]]]]

(***************************************************************************)
(* ProposalInfo and proposer rotation.                                     *)
(***************************************************************************)
CurrentProposer(proposalInfo) ==
    IF proposalInfo = Nil THEN NoAddr
    ELSE IF proposalInfo.CurrentTurn >= Len(proposalInfo.LastActiveValidators) THEN NoAddr
    ELSE proposalInfo.LastActiveValidators[proposalInfo.CurrentTurn + 1]

\* the comparison of the two active-validator lists
areActiveValidatorsUnchanged_LengthOnly(lastMaj23ActiveValidators, currentProposalInfo) ==
    /\ currentProposalInfo # Nil
    /\ Len(lastMaj23ActiveValidators) = Len(currentProposalInfo.LastActiveValidators)

areActiveValidatorsUnchanged(lastMaj23ActiveValidators, currentProposalInfo) ==
    /\ currentProposalInfo # Nil
    /\ Len(lastMaj23ActiveValidators) = Len(currentProposalInfo.LastActiveValidators)
    /\ \A i \in 1..Len(lastMaj23ActiveValidators) :
          lastMaj23ActiveValidators[i] = currentProposalInfo.LastActiveValidators[i]

\* the rotation after the last Maj23 vote set; the turn advances on a ProposalInfo
\* whose LastActiveValidators is never filled in
getNextProposalInfo_SeedsWithoutMaj23(currentProposalInfo, lastMaj23VoteSet, currentValidatorSet) ==
    LET nextProposalInfo == [LastActiveValidators |-> <<>>, CurrentTurn |-> 0]
    IN IF lastMaj23VoteSet = Nil \/ lastMaj23VoteSet.ValidatorsHash # Hash(currentValidatorSet)
       THEN [nextProposalInfo EXCEPT !.LastActiveValidators = currentValidatorSet.addrs,
                                     !.CurrentTurn = 0]
       ELSE LET lastMaj23ActiveValidators == ActiveValidators(lastMaj23VoteSet)
            IN IF ~areActiveValidatorsUnchanged(lastMaj23ActiveValidators,
                                                currentProposalInfo)
               THEN [nextProposalInfo EXCEPT
                       !.LastActiveValidators = lastMaj23ActiveValidators,
                       !.CurrentTurn = 0]
               ELSE LET turn == currentProposalInfo.CurrentTurn + 1
                    IN [nextProposalInfo EXCEPT
                          !.CurrentTurn =
                              IF turn >= Len(nextProposalInfo.LastActiveValidators)
                              THEN 0 ELSE turn]

getNextProposalInfo(currentProposalInfo, lastMaj23VoteSet, currentValidatorSet) ==
    LET nextProposalInfo == [LastActiveValidators |-> <<>>, CurrentTurn |-> 0]
    IN IF lastMaj23VoteSet = Nil THEN Nil
       ELSE IF lastMaj23VoteSet.ValidatorsHash # Hash(currentValidatorSet)
       THEN [nextProposalInfo EXCEPT !.LastActiveValidators = currentValidatorSet.addrs,
                                     !.CurrentTurn = 0]
       ELSE LET lastMaj23ActiveValidators == ActiveValidators(lastMaj23VoteSet)
            IN IF ~areActiveValidatorsUnchanged(lastMaj23ActiveValidators,
                                                currentProposalInfo)
               THEN [nextProposalInfo EXCEPT
                       !.LastActiveValidators = lastMaj23ActiveValidators,
                       !.CurrentTurn = 0]
               ELSE LET turn == currentProposalInfo.CurrentTurn + 1
                    IN [nextProposalInfo EXCEPT
                          !.CurrentTurn =
                              IF turn >= Len(nextProposalInfo.LastActiveValidators)
                              THEN 0 ELSE turn]

(***************************************************************************)
(* compareVoteSets: 1 replace, 0 merge, -1 keep the current vote set.      *)
(***************************************************************************)
compareVoteSets(remoteVoteSet, currentVoteSet, currentNonce, threshold, currentValidators) ==
    IF currentVoteSet = Nil
    THEN IF currentNonce = remoteVoteSet.Nonce THEN 1
         ELSE IF HasConverged(remoteVoteSet, threshold, currentValidators) THEN 1
         ELSE -1
    ELSE IF currentVoteSet.ID = remoteVoteSet.ID THEN 0
    ELSE
      LET currentVoteSetMaj23Agree == IsAgree(currentVoteSet, threshold, currentValidators)
          currentVoteSetMaj23Disagree == IsDisagree(currentVoteSet, threshold, currentValidators)
          currentVoteSetMaj23 == currentVoteSetMaj23Agree \/ currentVoteSetMaj23Disagree
          remoteVoteSetMaj23Agree == IsAgree(remoteVoteSet, threshold, currentValidators)
          remoteVoteSetMaj23Disagree == IsDisagree(remoteVoteSet, threshold, currentValidators)
          remoteVoteSetMaj23 == remoteVoteSetMaj23Agree \/ remoteVoteSetMaj23Disagree
      IN IF currentVoteSetMaj23 /\ ~remoteVoteSetMaj23 THEN -1
         ELSE IF ~currentVoteSetMaj23 /\ remoteVoteSetMaj23 THEN 1
         ELSE IF ~currentVoteSetMaj23 /\ ~remoteVoteSetMaj23 THEN -1
         ELSE IF currentVoteSetMaj23Agree /\ ~remoteVoteSetMaj23Agree THEN -1
         ELSE IF ~currentVoteSetMaj23Agree /\ remoteVoteSetMaj23Agree THEN 1
         ELSE IF ~currentVoteSetMaj23Agree /\ ~remoteVoteSetMaj23Agree THEN -1
         ELSE IF NumberOfVotes(remoteVoteSet) < NumberOfVotes(currentVoteSet) THEN -1
         ELSE IF NumberOfVotes(remoteVoteSet) > NumberOfVotes(currentVoteSet) THEN 1
         ELSE IF NumberOfAgreeVotes(remoteVoteSet) < NumberOfAgreeVotes(currentVoteSet) THEN -1
         ELSE IF NumberOfAgreeVotes(remoteVoteSet) > NumberOfAgreeVotes(currentVoteSet) THEN 1
         ELSE IF currentVoteSet.CreationTime > remoteVoteSet.CreationTime THEN -1
         ELSE IF currentVoteSet.CreationTime < remoteVoteSet.CreationTime THEN 1
         ELSE -1

(***************************************************************************)
(* State.                                                                  *)
(***************************************************************************)
VARIABLES
    now,            \* wall clock, Unix seconds
    cfg,            \* ReactorConfig: FnVoteSigningThreshold and the override validators
    running,        \* the nodes whose reactor is modelled; the others are peers that
                    \* may send whatever the signatures they hold allow
    state,          \* node -> ReactorState (f.state)
    persisted,      \* node -> the ReactorState last written by SaveReactorState
    commitRoutines, \* node -> the commitRoutine goroutines that have not returned
    pending,        \* node -> the ProposalInfo the progress routine is about to propose with
    nextTick,       \* node -> when the progress routine's timer fires next
    network,        \* messages queued by peer.Send for a modelled node, not yet received
    idsUsed,        \* vote-set IDs generated so far
    history,        \* every commit and every SubmitMultiSignedMessage call so far
    lastOp,         \* the last operation that changed or sent anything
    stateMtx,       \* the goroutine that holds f.stateMtx, if any
    peerMapMtx,     \* f.peerMapMtx: its writer, its readers, the callers of Lock waiting
    goroutines      \* goroutine -> the mutex calls of the operation it runs, and the
                    \* next of them

reactorVars == <<now, cfg, running, state, persisted, commitRoutines, pending, nextTick,
                 network, idsUsed, history, lastOp>>

mutexVars == <<stateMtx, peerMapMtx, goroutines>>

vars == <<reactorVars, mutexVars>>

\* the goroutines that take the mutexes of one reactor; propose runs in the progress
\* routine
Goroutines ==
    {"progressRoutine", "commitRoutine", "handleVoteSetChannelMessage",
     "handleMaj23VoteSetChannel", "AddPeer", "RemovePeer"}

NoGoroutine == "none"

\* no operation is inside a critical section
MutexesFree ==
    /\ stateMtx = NoGoroutine
    /\ peerMapMtx = [writer |-> NoGoroutine, readers |-> {}, waiting |-> {}]
    /\ goroutines = [g \in Goroutines |-> [path |-> <<>>, pc |-> 1]]

EmptyReactorState ==
    [CurrentVoteSets |-> Nil, PreviousMaj23VoteSets |-> Nil,
     PreviousTimedOutVoteSets |-> Nil, CurrentNonces |-> 0,
     CurrentProposalInfo |-> Nil, PreviousValidatorSet |-> Nil]

\* f.getValidatorSet: the override set, fixed at start
getValidatorSet == cfg.validators

areWeValidator(n) == GetByAddress(getValidatorSet, n) # -1

ownValidatorIndex(n) == GetByAddress(getValidatorSet, n)

\* f.connectedPeers of node n
connectedPeers(n) == Nodes \ {n}

\* the default for every FnID, whatever is stored
nonceOrDefault_StoredIgnored(s) == StartingNonce

\* nonceOrDefault: CurrentNonces[fnID] read with the "if !ok { currentNonce = 1 }"
\* default; 0 stands for a missing key (Go's zero value), which no operation stores
nonceOrDefault(s) == IF s.CurrentNonces = 0 THEN StartingNonce ELSE s.CurrentNonces

Send(channel, from, tos, vs) ==
    {[channel |-> channel, sender |-> from, to |-> p, vs |-> vs] : p \in tos}

\* SendQueueCapacity of the channel descriptors: the configuration may name it,
\* otherwise it is the bound of the model
SendQueueCapacity ==
    IF "SendQueueCapacity" \in DOMAIN cfg THEN cfg.SendQueueCapacity ELSE MaxInFlight

\* peer.Send of the messages in sent: those for a modelled node are queued while
\* there is room
Enqueue(queued, sent) ==
    LET new == {m \in sent : m.to \in running} \ queued
        room == SendQueueCapacity - Cardinality(queued)
    IN {queued \cup taken : taken \in {x \in SUBSET new :
            Cardinality(x) = IF Cardinality(new) < room THEN Cardinality(new) ELSE room}}

\* op: the operation; outcome: the path it took; vs: the vote set it proposed or
\* committed; nonce: CurrentNonces before it; submit: its SubmitMultiSignedMessage call,
\* if any; saved: whether it called SaveReactorState; sent: its peer.Send calls; sender:
\* the peer whose message made it send; voted: the vote this node added
Op(op, n, outcome, vs, nonce, submit, saved, sent) ==
    [op |-> op, node |-> n, outcome |-> outcome, vs |-> vs, nonce |-> nonce,
     submit |-> submit, saved |-> saved, sent |-> sent, sender |-> 0, voted |-> "none"]

\* the arguments of a Fn.SubmitMultiSignedMessage call: safeCopyDoubleArray of the
\* vote set's OracleSignatures
SubmitCall(vs) == [ctx |-> vs.ExecutionContext, hash |-> vs.Hash,
                   signatures |-> vs.OracleSignatures]

(***************************************************************************)
(* The vote set a bootstrapped store holds as the last committed one: the  *)
(* round before StartingNonce, voted Agree by every validator.             *)
(***************************************************************************)
GenesisVoteSet(set) ==
    [ID |-> 0, Nonce |-> StartingNonce - 1, CreationTime |-> 0 - ProgressIntervalInSeconds,
     ExecutionContext |-> "ctx", Hash |-> calculateMessageHash("m0"),
     ValidatorsHash |-> Hash(set), ValidatorAddresses |-> set.addrs,
     Votes |-> [p \in 1..Len(set.addrs) |-> "A"],
     OracleSignatures |-> [p \in 1..Len(set.addrs) |-> OracleSignature(set.addrs[p], "m0")],
     ProposalInfo |-> Nil]

SeededReactorState(set) ==
    [EmptyReactorState EXCEPT !.PreviousMaj23VoteSets = GenesisVoteSet(set),
                              !.CurrentNonces = StartingNonce,
                              !.PreviousValidatorSet = set]

(***************************************************************************)
(* Peers outside the model.  They know the proposals of RemoteProposals    *)
(* and the vote sets a modelled node holds, and send them with any votes   *)
(* of the other validators; the slot of a modelled node carries the vote   *)
(* that node has in its own copy, if any: nobody else can sign for it.     *)
(***************************************************************************)
\* a vote set without its votes
Core(vs) ==
    [vs EXCEPT !.Votes = [p \in 1..Len(vs.Votes) |-> "U"],
               !.OracleSignatures = [p \in 1..Len(vs.Votes) |-> NoSig]]

RemoteProposal(id, nonce, t, message, set) ==
    Core(NewVoteSet(id, nonce, t, 0, "ctx", calculateMessageHash(message), NoSig, set,
                    [LastActiveValidators |-> set.addrs, CurrentTurn |-> 0]))

\* two rival proposals of the first round, and one of the round after it
RemoteProposals(set) ==
    {RemoteProposal(11, StartingNonce, ProgressIntervalInSeconds, "mA", set),
     RemoteProposal(12, StartingNonce, ProgressIntervalInSeconds + 1, "mB", set),
     RemoteProposal(13, StartingNonce + 1,
                    ProgressIntervalInSeconds + ExpiresInForSync - MaxAllowedTimeDriftInFuture,
                    "mA", set)}

HeldVoteSets(n) ==
    {state[n].CurrentVoteSets, state[n].PreviousMaj23VoteSets,
     state[n].PreviousTimedOutVoteSets} \ {Nil, GenesisVoteSet(getValidatorSet)}

KnownCores(n) == RemoteProposals(getValidatorSet) \cup {Core(vs) : vs \in HeldVoteSets(n)}

WithVotes(core, votes) ==
    [core EXCEPT
       !.Votes = votes,
       !.OracleSignatures = [p \in 1..Len(votes) |->
            IF votes[p] = "A" THEN OracleSignature(core.ValidatorAddresses[p], core.Hash[2])
            ELSE NoSig]]

\* the vote sets a peer can send to node n
PeerVoteSets(n) ==
    LET own == ownValidatorIndex(n) + 1
        slots == 1..Len(getValidatorSet.addrs)
        possible(core) ==
            {v \in [slots -> {"U", "A", "D"}] :
                /\ \E p \in slots : v[p] # "U"
                /\ own \in slots =>
                      \/ v[own] = "U"
                      \/ \E vs \in HeldVoteSets(n) : Core(vs) = core /\ vs.Votes[own] = v[own]}
    IN UNION {{WithVotes(core, v) : v \in possible(core)} : core \in KnownCores(n)}

\* the peers outside the model are alike to a handler: one of them relays
Relays == IF running = Nodes THEN {} ELSE {CHOOSE p \in Nodes \ running : TRUE}

\* what node n can receive on a channel: queued messages of modelled nodes, and
\* anything a peer outside the model can send
Inbound(n, channel) ==
    {m \in network : m.to = n /\ m.channel = channel}
    \cup (IF Relays = {} THEN {}
          ELSE {[channel |-> channel, sender |-> p, to |-> n, vs |-> vs] :
                  p \in Relays,
                  vs \in PeerVoteSets(n) \cup (IF channel = "maj23"
                                              THEN {GenesisVoteSet(getValidatorSet)}
                                              ELSE {})})

\* (validatorIndex+1) * BaseProposalDelay, in whole seconds; BaseProposalDelay for others
ProposalDelay(n) == IF areWeValidator(n) THEN (ownValidatorIndex(n) + 1) \div 2 ELSE 0

\* calculateProgressRoutineSleepTime, as the time the timer fires
calculateProgressRoutineWakeTime(n, t) ==
    t + (ProgressIntervalInSeconds - (t % ProgressIntervalInSeconds)) + ProposalDelay(n)

Configs ==
    {[FnVoteSigningThreshold |-> th, validators |-> set] :
        th \in {Maj23SigningThreshold, AllSigningThreshold, UnsetSigningThreshold},
        set \in {ValidatorSetOf(<<1>>, <<1>>), ValidatorSetOf(<<1, 2>>, <<3, 1>>)}}

\* NewFnConsensusReactor and OnStart of the nodes of run: the state loaded from the
\* store is empty or bootstrapped, and is saved back
InitOf(run, seeded) ==
    /\ now = 0
    /\ running = run
    /\ state = [n \in Nodes |-> IF n \in seeded
                                THEN SeededReactorState(cfg.validators)
                                ELSE EmptyReactorState]
    /\ persisted = state
    /\ MutexesFree
    /\ commitRoutines = [n \in Nodes |-> {}]
    /\ pending = [n \in Nodes |-> Nil]
    /\ nextTick = [n \in Nodes |-> calculateProgressRoutineWakeTime(n, 0)]
    /\ network = {}
    /\ idsUsed = 0
    /\ history = {}
    /\ lastOp = Op("start", 0, "", Nil, 0, Nil, TRUE, {})

\* one node among peers, started on an empty store: a validator of every set, or a
\* validator of one set only
Init ==
    /\ cfg \in Configs
    /\ \E n \in {1, 2} : InitOf({n}, {})

(***************************************************************************)
(* Time.  The clock jumps to the next instant at which a timer fires or a  *)
(* vote set stops being accepted for sync.                                 *)
(***************************************************************************)
VoteSetsInFlight ==
    ({state[n].CurrentVoteSets : n \in running} \ {Nil})
    \cup {m.vs : m \in network}
    \cup (IF running = Nodes THEN {} ELSE RemoteProposals(getValidatorSet))

TimeEvents ==
    {nextTick[n] : n \in running}
    \cup UNION {{r.monitoringTill : r \in commitRoutines[n]} : n \in running}
    \cup {vs.CreationTime + ExpiresInForSync : vs \in VoteSetsInFlight}

\* a goroutine whose timer has fired, or that is between two critical sections, runs
\* before the clock reaches the next second
NoGoroutineReady ==
    \A n \in running :
        /\ now < nextTick[n]
        /\ pending[n] = Nil
        /\ \A r \in commitRoutines[n] : ~r.fired /\ now < r.monitoringTill

AdvanceTime ==
    /\ NoGoroutineReady
    /\ \E t \in TimeEvents :
          /\ t > now
          /\ t <= MaxTime
          /\ \A u \in TimeEvents : u > now => t <= u
          /\ now' = t
    /\ lastOp' = Op("time", 0, "", Nil, 0, Nil, FALSE, {})
    /\ UNCHANGED mutexVars
    /\ UNCHANGED <<cfg, running, state, persisted, commitRoutines, pending, nextTick,
                   network, idsUsed, history>>

(***************************************************************************)
(* Commit routines.  A routine is parked in its select until its timer or  *)
(* its quit channel wakes it; once the timer has woken it ("fired") it     *)
(* runs handleCommit as soon as it gets the state mutex.  Closing the quit *)
(* channel registered in commitRoutineQuitCh wakes a parked routine on the *)
(* quit case, and it returns.  startedFor is the ID of the vote set the    *)
(* routine was started for (the code does not keep it).                    *)
(***************************************************************************)
NewRoutine(vs) ==
    [monitoringTill |-> vs.CreationTime + ExpiresInForSync + CommitRoutineExecutionBufferSeconds,
     fired |-> FALSE, registered |-> TRUE, startedFor |-> vs.ID]

\* commitRoutineQuitCh[fnID] = quitCh; go f.commitRoutine(...)
StartRoutine(routines, vs) ==
    {[r EXCEPT !.registered = FALSE] : r \in routines} \cup {NewRoutine(vs)}

\* close(f.commitRoutineQuitCh[fnID])
CloseQuitCh(routines) == {r \in routines : ~(r.registered /\ ~r.fired)}

\* a tick that takes every vote set for one still in flight
progressTick_ExpiredKept(s, n, set, t) ==
    LET currentVoteState == s.CurrentVoteSets
        expired == FALSE
        eligible == currentVoteState = Nil \/ expired
        s1 == IF expired
              THEN [s EXCEPT !.PreviousTimedOutVoteSets = currentVoteState,
                             !.CurrentVoteSets = Nil]
              ELSE s
        next == getNextProposalInfo(s1.CurrentProposalInfo, s1.PreviousMaj23VoteSets, set)
    IN [state |-> IF eligible THEN [s1 EXCEPT !.CurrentProposalInfo = next] ELSE s1,
        eligible |-> eligible,
        outcome |-> IF expired THEN "archived" ELSE IF eligible THEN "eligible" ELSE "pending",
        \* the FnIDs of fnsEligibleForProposal this node is the proposer of
        propose |-> IF eligible /\ GetByAddress(set, n) # -1 /\ CurrentProposer(next) = n
                    THEN next ELSE Nil]

(***************************************************************************)
(* progressRoutine, the timer case up to the release of the state mutex.   *)
(***************************************************************************)
progressTick(s, n, set, t) ==
    LET currentVoteState == s.CurrentVoteSets
        expired == currentVoteState # Nil /\ IsExpired(currentVoteState, ExpiresIn, t)
        eligible == currentVoteState = Nil \/ expired
        s1 == IF expired
              THEN [s EXCEPT !.PreviousTimedOutVoteSets = currentVoteState,
                             !.CurrentVoteSets = Nil]
              ELSE s
        next == getNextProposalInfo(s1.CurrentProposalInfo, s1.PreviousMaj23VoteSets, set)
    IN [state |-> IF eligible THEN [s1 EXCEPT !.CurrentProposalInfo = next] ELSE s1,
        eligible |-> eligible,
        outcome |-> IF expired THEN "archived" ELSE IF eligible THEN "eligible" ELSE "pending",
        \* the FnIDs of fnsEligibleForProposal this node is the proposer of
        propose |-> IF eligible /\ GetByAddress(set, n) # -1 /\ CurrentProposer(next) = n
                    THEN next ELSE Nil]

ProgressTick(n) ==
    /\ now >= nextTick[n]
    /\ pending[n] = Nil
    /\ \E eff \in {progressTick(state[n], n, getValidatorSet, now)} :
          /\ state' = [state EXCEPT ![n] = eff.state]
          /\ persisted' = [persisted EXCEPT ![n] = eff.state]
          /\ pending' = [pending EXCEPT ![n] = eff.propose]
          /\ lastOp' = Op("tick", n, eff.outcome, state[n].CurrentVoteSets,
                          state[n].CurrentNonces, Nil, TRUE, {})
    /\ nextTick' = [nextTick EXCEPT ![n] = calculateProgressRoutineWakeTime(n, now)]
    /\ UNCHANGED mutexVars
    /\ UNCHANGED <<now, cfg, running, commitRoutines, network, idsUsed, history>>

(***************************************************************************)
(* propose.  The Fn calls before the mutex touch no reactor state, so the  *)
(* whole call is one step at the moment it takes the mutex.                *)
(***************************************************************************)
propose_ShortcutStores(s, routines, n, voteSet, threshold, set) ==
    [state |-> [s EXCEPT !.CurrentVoteSets = voteSet],
     routines |-> StartRoutine(routines, voteSet),
     submit |-> IF IsAgree(voteSet, threshold, set) THEN SubmitCall(voteSet) ELSE Nil,
     saved |-> TRUE,
     sent |-> Send("voteset", n, connectedPeers(n), voteSet),
     outcome |-> IF IsAgree(voteSet, threshold, set) THEN "shortcut" ELSE "proposed"]

propose(s, routines, n, voteSet, threshold, set) ==
    IF IsAgree(voteSet, threshold, set)
    THEN [state |-> s, routines |-> routines, submit |-> SubmitCall(voteSet),
          saved |-> FALSE, sent |-> {}, outcome |-> "shortcut"]
    ELSE [state |-> [s EXCEPT !.CurrentVoteSets = voteSet],
          routines |-> StartRoutine(routines, voteSet),
          submit |-> Nil, saved |-> TRUE,
          sent |-> Send("voteset", n, connectedPeers(n), voteSet),
          outcome |-> "proposed"]

Propose(n) ==
    /\ pending[n] # Nil
    /\ idsUsed < MaxProposals
    /\ \E message \in Messages :
          LET currentNonce == nonceOrDefault(state[n])
              voteSet == NewVoteSet(idsUsed + 1, currentNonce, now, ownValidatorIndex(n), "ctx",
                                    calculateMessageHash(message), OracleSignature(n, message),
                                    getValidatorSet, pending[n])
              eff == propose(state[n], commitRoutines[n], n, voteSet,
                             cfg.FnVoteSigningThreshold, getValidatorSet)
          IN /\ state' = [state EXCEPT ![n] = eff.state]
             /\ persisted' = IF eff.saved THEN [persisted EXCEPT ![n] = eff.state]
                             ELSE persisted
             /\ commitRoutines' = [commitRoutines EXCEPT ![n] = eff.routines]
             /\ network' \in Enqueue(network, eff.sent)
             /\ history' = IF eff.submit = Nil THEN history
                           ELSE history \cup {[op |-> "shortcut", node |-> n,
                                               nonce |-> currentNonce, vs |-> voteSet,
                                               submitted |-> TRUE]}
             /\ lastOp' = Op("propose", n, eff.outcome, voteSet, state[n].CurrentNonces,
                             eff.submit, eff.saved, eff.sent)
    /\ idsUsed' = idsUsed + 1
    /\ pending' = [pending EXCEPT ![n] = Nil]
    /\ UNCHANGED mutexVars
    /\ UNCHANGED <<now, cfg, running, nextTick>>

\* PrepareContext, GetMessageAndSignature or MapMessage fails, the context is too
\* large or shouldExecuteFn is false: propose returns before it takes the mutex
ProposeAbandoned(n) ==
    /\ pending[n] # Nil
    /\ pending' = [pending EXCEPT ![n] = Nil]
    /\ lastOp' = Op("propose", n, "abandoned", Nil, state[n].CurrentNonces, Nil, FALSE, {})
    /\ UNCHANGED mutexVars
    /\ UNCHANGED <<now, cfg, running, state, persisted, commitRoutines, nextTick, network,
                   idsUsed, history>>

(***************************************************************************)
(* handleCommit, run by a commit routine whose timer fired.                *)
(***************************************************************************)
\* the condition under which handleCommit looks for the submitter
areWeValidatorAndAgree_IgnoresThreshold(currentVoteSet, validatorIndex, threshold, set) ==
    validatorIndex # -1

areWeValidatorAndAgree(currentVoteSet, validatorIndex, threshold, set) ==
    validatorIndex # -1 /\ IsAgree(currentVoteSet, threshold, set)

\* the submitter of a nonce among the Agree voters
isOurTurnToSubmit_FirstAgreeVoter(currentNonce, numberOfAgreeVotes, agreeVoteIndex) ==
    agreeVoteIndex = 0

isOurTurnToSubmit(currentNonce, numberOfAgreeVotes, agreeVoteIndex) ==
    currentNonce % numberOfAgreeVotes = agreeVoteIndex

\* the end of the converged branch: the vote set becomes the previous Maj23 one
commitConverged_NonceKept(s, currentVoteSet, set) ==
    [s EXCEPT !.PreviousValidatorSet = set,
              !.PreviousMaj23VoteSets = currentVoteSet,
              !.CurrentVoteSets = Nil]

commitConverged(s, currentVoteSet, set) ==
    [s EXCEPT !.CurrentNonces = @ + 1,
              !.PreviousValidatorSet = set,
              !.PreviousMaj23VoteSets = currentVoteSet,
              !.CurrentVoteSets = Nil]

\* the copy of handleCommit that counts a timed-out round as a round
handleCommit_TimedOutAdvancesNonce(s, n, threshold, set, t) ==
    LET currentVoteSet == s.CurrentVoteSets
        currentNonce == s.CurrentNonces
        validatorIndex == GetByAddress(set, n)
        unchanged == [state |-> s, sent |-> {}, submit |-> Nil, saved |-> FALSE,
                      outcome |-> "invalid"]
    IN IF ~IsValid(currentVoteSet, TRUE, ExpiresIn, set, t) THEN unchanged
       ELSE IF ~HasConverged(currentVoteSet, threshold, set)
       THEN [state |-> [s EXCEPT !.PreviousTimedOutVoteSets = currentVoteSet,
                                 !.CurrentNonces = currentNonce + 1,
                                 !.CurrentVoteSets = Nil],
             sent |-> IF s.PreviousMaj23VoteSets # Nil
                      THEN Send("maj23", n, connectedPeers(n), s.PreviousMaj23VoteSets)
                      ELSE {},
             submit |-> Nil, saved |-> TRUE, outcome |-> "timedout"]
       ELSE LET weAgree == areWeValidatorAndAgree(currentVoteSet, validatorIndex, threshold,
                                                  set)
                agreeVoteIndex ==
                    GetAgreeVoteIndexForValidatorIndex(currentVoteSet, validatorIndex)
            IN IF weAgree /\ agreeVoteIndex = -1
               THEN [unchanged EXCEPT !.outcome = "error"]
               ELSE [state |-> commitConverged(s, currentVoteSet, set),
                     sent |-> {},
                     submit |-> IF /\ weAgree
                                   /\ isOurTurnToSubmit(currentNonce,
                                                        NumberOfAgreeVotes(currentVoteSet),
                                                        agreeVoteIndex)
                                THEN SubmitCall(currentVoteSet) ELSE Nil,
                     saved |-> TRUE, outcome |-> "committed"]

handleCommit(s, n, threshold, set, t) ==
    LET currentVoteSet == s.CurrentVoteSets
        currentNonce == s.CurrentNonces
        validatorIndex == GetByAddress(set, n)
        unchanged == [state |-> s, sent |-> {}, submit |-> Nil, saved |-> FALSE,
                      outcome |-> "invalid"]
    IN IF ~IsValid(currentVoteSet, TRUE, ExpiresIn, set, t) THEN unchanged
       ELSE IF ~HasConverged(currentVoteSet, threshold, set)
       THEN [state |-> [s EXCEPT !.PreviousTimedOutVoteSets = currentVoteSet,
                                 !.CurrentVoteSets = Nil],
             sent |-> IF s.PreviousMaj23VoteSets # Nil
                      THEN Send("maj23", n, connectedPeers(n), s.PreviousMaj23VoteSets)
                      ELSE {},
             submit |-> Nil, saved |-> TRUE, outcome |-> "timedout"]
       ELSE LET weAgree == areWeValidatorAndAgree(currentVoteSet, validatorIndex, threshold,
                                                  set)
                agreeVoteIndex ==
                    GetAgreeVoteIndexForValidatorIndex(currentVoteSet, validatorIndex)
            IN IF weAgree /\ agreeVoteIndex = -1
               THEN [unchanged EXCEPT !.outcome = "error"]
               ELSE [state |-> commitConverged(s, currentVoteSet, set),
                     sent |-> {},
                     submit |-> IF /\ weAgree
                                   /\ isOurTurnToSubmit(currentNonce,
                                                        NumberOfAgreeVotes(currentVoteSet),
                                                        agreeVoteIndex)
                                THEN SubmitCall(currentVoteSet) ELSE Nil,
                     saved |-> TRUE, outcome |-> "committed"]

\* select: case <-timer.C
CommitTimerFires(n) ==
    /\ \E r \in commitRoutines[n] :
          /\ ~r.fired
          /\ now >= r.monitoringTill
          /\ commitRoutines' = [commitRoutines EXCEPT ![n] =
                (@ \ {r}) \cup {[r EXCEPT !.fired = TRUE, !.registered = FALSE]}]
          /\ lastOp' = Op("timer", n, "", Nil, state[n].CurrentNonces, Nil, FALSE, {})
    /\ UNCHANGED mutexVars
    /\ UNCHANGED <<now, cfg, running, state, persisted, pending, nextTick, network, idsUsed, history>>

HandleCommit(n) ==
    /\ \E r \in commitRoutines[n] :
          /\ r.fired
          /\ commitRoutines' = [commitRoutines EXCEPT ![n] = @ \ {r}]
    /\ \E eff \in {handleCommit(state[n], n, cfg.FnVoteSigningThreshold, getValidatorSet, now)} :
          /\ state' = [state EXCEPT ![n] = eff.state]
          /\ persisted' = IF eff.saved THEN [persisted EXCEPT ![n] = eff.state] ELSE persisted
          /\ network' \in Enqueue(network, eff.sent)
          /\ history' = IF eff.outcome # "committed" THEN history
                        ELSE history \cup {[op |-> "commit", node |-> n,
                                            nonce |-> state[n].CurrentNonces,
                                            vs |-> state[n].CurrentVoteSets,
                                            submitted |-> eff.submit # Nil]}
          /\ lastOp' = Op("commit", n, eff.outcome, state[n].CurrentVoteSets,
                          state[n].CurrentNonces, eff.submit, eff.saved, eff.sent)
    /\ UNCHANGED mutexVars
    /\ UNCHANGED <<now, cfg, running, pending, nextTick, idsUsed>>

\* a handler that stores the vote set of the round before whatever it holds
handleMaj23VoteSetChannel_PreviousOverwritten(s, n, remoteMaj23VoteSet, threshold, currentValidatorSet, t) ==
    LET previousValidatorSet == s.PreviousValidatorSet
        validNow == IsValid(remoteMaj23VoteSet, FALSE, ExpiresInForSync, currentValidatorSet, t)
        validBefore == /\ previousValidatorSet # Nil
                       /\ IsValid(remoteMaj23VoteSet, FALSE, ExpiresInForSync,
                                  previousValidatorSet, t)
        validatorSetWhichSignedRemoteVoteSet ==
            IF validNow THEN currentValidatorSet ELSE previousValidatorSet
        currentNonce == nonceOrDefault(s)
        dropped == [state |-> s, sent |-> {}, saved |-> FALSE, outcome |-> "invalid"]
    IN IF ~validNow /\ ~validBefore THEN dropped
       ELSE IF ~IsExpired(remoteMaj23VoteSet, ExpiresIn, t)
       THEN [dropped EXCEPT !.outcome = "active"]
       ELSE IF ~HasConverged(remoteMaj23VoteSet, threshold,
                             validatorSetWhichSignedRemoteVoteSet)
       THEN [dropped EXCEPT !.outcome = "notconverged"]
       ELSE IF remoteMaj23VoteSet.Nonce < currentNonce
       THEN IF remoteMaj23VoteSet.Nonce = currentNonce - 1
            THEN [state |-> [s EXCEPT
                               !.PreviousMaj23VoteSets = remoteMaj23VoteSet,
                               !.PreviousValidatorSet = validatorSetWhichSignedRemoteVoteSet,
                               !.CurrentProposalInfo = remoteMaj23VoteSet.ProposalInfo],
                  sent |-> {}, saved |-> TRUE, outcome |-> "stored"]
            ELSE [state |-> s, sent |-> {}, saved |-> TRUE, outcome |-> "old"]
       ELSE [state |-> [s EXCEPT
                          !.PreviousMaj23VoteSets = remoteMaj23VoteSet,
                          !.PreviousValidatorSet = validatorSetWhichSignedRemoteVoteSet,
                          !.CurrentNonces = remoteMaj23VoteSet.Nonce + 1,
                          !.CurrentProposalInfo = remoteMaj23VoteSet.ProposalInfo],
             sent |-> Send("maj23", n, connectedPeers(n), remoteMaj23VoteSet),
             saved |-> TRUE, outcome |-> "installed"]

(***************************************************************************)
(* handleMaj23VoteSetChannel.                                              *)
(***************************************************************************)
handleMaj23VoteSetChannel(s, n, remoteMaj23VoteSet, threshold, currentValidatorSet, t) ==
    LET previousValidatorSet == s.PreviousValidatorSet
        validNow == IsValid(remoteMaj23VoteSet, FALSE, ExpiresInForSync, currentValidatorSet, t)
        validBefore == /\ previousValidatorSet # Nil
                       /\ IsValid(remoteMaj23VoteSet, FALSE, ExpiresInForSync,
                                  previousValidatorSet, t)
        validatorSetWhichSignedRemoteVoteSet ==
            IF validNow THEN currentValidatorSet ELSE previousValidatorSet
        currentNonce == nonceOrDefault(s)
        dropped == [state |-> s, sent |-> {}, saved |-> FALSE, outcome |-> "invalid"]
    IN IF ~validNow /\ ~validBefore THEN dropped
       ELSE IF ~IsExpired(remoteMaj23VoteSet, ExpiresIn, t)
       THEN [dropped EXCEPT !.outcome = "active"]
       ELSE IF ~HasConverged(remoteMaj23VoteSet, threshold,
                             validatorSetWhichSignedRemoteVoteSet)
       THEN [dropped EXCEPT !.outcome = "notconverged"]
       ELSE IF remoteMaj23VoteSet.Nonce < currentNonce
       THEN IF remoteMaj23VoteSet.Nonce = currentNonce - 1 /\ s.PreviousMaj23VoteSets = Nil
            THEN [state |-> [s EXCEPT
                               !.PreviousMaj23VoteSets = remoteMaj23VoteSet,
                               !.PreviousValidatorSet = validatorSetWhichSignedRemoteVoteSet,
                               !.CurrentProposalInfo = remoteMaj23VoteSet.ProposalInfo],
                  sent |-> {}, saved |-> TRUE, outcome |-> "stored"]
            ELSE [state |-> s, sent |-> {}, saved |-> TRUE, outcome |-> "old"]
       ELSE [state |-> [s EXCEPT
                          !.PreviousMaj23VoteSets = remoteMaj23VoteSet,
                          !.PreviousValidatorSet = validatorSetWhichSignedRemoteVoteSet,
                          !.CurrentNonces = remoteMaj23VoteSet.Nonce + 1,
                          !.CurrentProposalInfo = remoteMaj23VoteSet.ProposalInfo],
             sent |-> Send("maj23", n, connectedPeers(n), remoteMaj23VoteSet),
             saved |-> TRUE, outcome |-> "installed"]

ReceiveMaj23(n) ==
    /\ \E m \in Inbound(n, "maj23") :
          /\ \E eff \in {handleMaj23VoteSetChannel(state[n], n, m.vs,
                           cfg.FnVoteSigningThreshold,
                           getValidatorSet, now)} :
                /\ state' = [state EXCEPT ![n] = eff.state]
                /\ persisted' = IF eff.saved THEN [persisted EXCEPT ![n] = eff.state]
                                ELSE persisted
                /\ network' \in Enqueue(network \ {m}, eff.sent)
                /\ lastOp' = IF /\ eff.state = state[n]
                                /\ eff.sent = {}
                                /\ (eff.saved => persisted[n] = state[n])
                              THEN lastOp
                              ELSE [Op("maj23", n, eff.outcome, Nil, state[n].CurrentNonces,
                                       Nil, eff.saved, eff.sent) EXCEPT !.sender = m.sender]
    /\ UNCHANGED mutexVars
    /\ UNCHANGED <<now, cfg, running, commitRoutines, pending, nextTick, idsUsed, history>>

(***************************************************************************)
(* handleVoteSetChannelMessage.  fnResult is what the Fn callbacks do when *)
(* this node has to vote, message what GetMessageAndSignature observes.    *)
(***************************************************************************)
\* what Fn.GetMessageAndSignature and Fn.MapMessage return to a voting node
FnObservations ==
    {[result |-> "ok", message |-> m] : m \in Messages}
    \cup {[result |-> "error", message |-> "mA"]}
    \cup {[result |-> "mapError", message |-> m] : m \in Messages}

\* the copy of applyComparison that takes the remote's slots over the local ones
\* when it merges
applyComparison_RemoteSlotsWin(s, routines, remoteVoteSet, threshold, currentValidators) ==
    LET currentNonce == s.CurrentNonces
        currentVoteSet == s.CurrentVoteSets
        cmp == compareVoteSets(remoteVoteSet, currentVoteSet, currentNonce, threshold,
                               currentValidators)
        merged == Merge(remoteVoteSet, currentVoteSet)
        kept == [returned |-> FALSE, state |-> s, routines |-> routines,
                 hasOurVoteSetChanged |-> FALSE, didWeContribute |-> FALSE,
                 outcome |-> "kept"]
    IN CASE cmp = 0 ->
              IF ~merged.ok THEN [kept EXCEPT !.returned = TRUE, !.outcome = "mergefailed"]
              ELSE [kept EXCEPT !.state = [s EXCEPT !.CurrentVoteSets = merged.vs],
                                !.hasOurVoteSetChanged = merged.changed,
                                !.didWeContribute = merged.changed,
                                !.outcome = "merged"]
         [] cmp = 1 ->
              [kept EXCEPT
                 !.state = [s EXCEPT !.CurrentVoteSets = remoteVoteSet,
                                     !.CurrentNonces = remoteVoteSet.Nonce,
                                     !.CurrentProposalInfo = remoteVoteSet.ProposalInfo],
                 !.routines = StartRoutine(IF currentVoteSet # Nil
                                           THEN CloseQuitCh(routines) ELSE routines,
                                           remoteVoteSet),
                 !.hasOurVoteSetChanged = TRUE,
                 !.outcome = "replaced"]
         [] OTHER ->
              IF currentVoteSet = Nil
              THEN [kept EXCEPT !.returned = TRUE, !.outcome = "dropped"]
              ELSE kept

\* the switch on compareVoteSets: [returned, state, routines, hasOurVoteSetChanged,
\* didWeContribute, outcome]
applyComparison(s, routines, remoteVoteSet, threshold, currentValidators) ==
    LET currentNonce == s.CurrentNonces
        currentVoteSet == s.CurrentVoteSets
        cmp == compareVoteSets(remoteVoteSet, currentVoteSet, currentNonce, threshold,
                               currentValidators)
        merged == Merge(currentVoteSet, remoteVoteSet)
        kept == [returned |-> FALSE, state |-> s, routines |-> routines,
                 hasOurVoteSetChanged |-> FALSE, didWeContribute |-> FALSE,
                 outcome |-> "kept"]
    IN CASE cmp = 0 ->
              IF ~merged.ok THEN [kept EXCEPT !.returned = TRUE, !.outcome = "mergefailed"]
              ELSE [kept EXCEPT !.state = [s EXCEPT !.CurrentVoteSets = merged.vs],
                                !.hasOurVoteSetChanged = merged.changed,
                                !.didWeContribute = merged.changed,
                                !.outcome = "merged"]
         [] cmp = 1 ->
              [kept EXCEPT
                 !.state = [s EXCEPT !.CurrentVoteSets = remoteVoteSet,
                                     !.CurrentNonces = remoteVoteSet.Nonce,
                                     !.CurrentProposalInfo = remoteVoteSet.ProposalInfo],
                 !.routines = StartRoutine(IF currentVoteSet # Nil
                                           THEN CloseQuitCh(routines) ELSE routines,
                                           remoteVoteSet),
                 !.hasOurVoteSetChanged = TRUE,
                 !.outcome = "replaced"]
         [] OTHER ->
              IF currentVoteSet = Nil
              THEN [kept EXCEPT !.returned = TRUE, !.outcome = "dropped"]
              ELSE kept

\* the calls the voting block makes before it returns
ownVoteCalls(fnResult) ==
    IF fnResult = "error" THEN <<"GetMessageAndSignature">>
    ELSE IF fnResult = "mapError"
    THEN <<"GetMessageAndSignature", "calculateMessageHash", "MapMessage">>
    ELSE <<"GetMessageAndSignature", "calculateMessageHash", "MapMessage", "AddVote">>

\* the copy of addOwnVote that votes Agree whatever the recomputed hash is
addOwnVote_AlwaysAgree(s, n, validatorIndex, fnResult, message) ==
    LET currentVoteSet == s.CurrentVoteSets
        added == AddVote(currentVoteSet, s.CurrentNonces, validatorIndex,
                         "A", OracleSignature(n, message))
    IN IF fnResult # "ok"
       THEN [returned |-> TRUE, state |-> s, voted |-> "none", calls |-> ownVoteCalls(fnResult)]
       ELSE IF ~added.ok
       THEN [returned |-> TRUE, state |-> s, voted |-> "none", calls |-> ownVoteCalls(fnResult)]
       ELSE [returned |-> FALSE, state |-> [s EXCEPT !.CurrentVoteSets = added.vs],
             voted |-> "A", calls |-> ownVoteCalls(fnResult)]

\* lines 830-878: [returned, state, voted, calls]; calls is the order in which
\* the Fn callbacks and AddVote were invoked
addOwnVote(s, n, validatorIndex, fnResult, message) ==
    LET currentVoteSet == s.CurrentVoteSets
        hash == calculateMessageHash(message)
        areWeAgreed == currentVoteSet.Hash = hash
        added == AddVote(currentVoteSet, s.CurrentNonces, validatorIndex,
                         IF areWeAgreed THEN "A" ELSE "D", OracleSignature(n, message))
    IN IF fnResult # "ok"
       THEN [returned |-> TRUE, state |-> s, voted |-> "none", calls |-> ownVoteCalls(fnResult)]
       ELSE IF ~added.ok
       THEN [returned |-> TRUE, state |-> s, voted |-> "none", calls |-> ownVoteCalls(fnResult)]
       ELSE [returned |-> FALSE, state |-> [s EXCEPT !.CurrentVoteSets = added.vs],
             voted |-> IF areWeAgreed THEN "A" ELSE "D", calls |-> ownVoteCalls(fnResult)]

handleVoteSetChannelMessage(s, routines, n, sender, remoteVoteSet, threshold, currentValidators, t, fnResult, message) ==
    LET validatorIndex == GetByAddress(currentValidators, n)
        currentNonce == nonceOrDefault(s)
        s0 == [s EXCEPT !.CurrentNonces = currentNonce]
        result(st, rs, sent, outcome, voted) ==
            [state |-> st, routines |-> rs, sent |-> sent, outcome |-> outcome,
             voted |-> voted, calls |-> <<>>]
    IN IF ~IsValid(remoteVoteSet, TRUE, ExpiresInForSync, currentValidators, t)
       THEN result(s, routines, {}, "invalid", "none")
       ELSE IF currentNonce > remoteVoteSet.Nonce
       THEN result(s0, routines, {}, "stale", "none")
       ELSE
         LET c == applyComparison(s0, routines, remoteVoteSet, threshold, currentValidators)
             weVote == /\ validatorIndex # -1
                       /\ ~HaveWeAlreadySigned(c.state.CurrentVoteSets, validatorIndex)
             v == addOwnVote(c.state, n, validatorIndex, fnResult, message)
             final == IF weVote THEN v.state ELSE c.state
             didWeContribute == weVote \/ c.didWeContribute
             hasOurVoteSetChanged == weVote \/ c.hasOurVoteSetChanged
         IN IF c.returned THEN result(c.state, c.routines, {}, c.outcome, "none")
            ELSE IF weVote /\ v.returned
            THEN [result(c.state, c.routines, {}, c.outcome, "failed")
                     EXCEPT !.calls = v.calls]
            ELSE IF ~hasOurVoteSetChanged
            THEN result(final, c.routines, {}, c.outcome, "none")
            ELSE [result(final, c.routines,
                         Send("voteset", n,
                              IF didWeContribute THEN connectedPeers(n)
                              ELSE connectedPeers(n) \ {sender},
                              final.CurrentVoteSets),
                         c.outcome, IF weVote THEN v.voted ELSE "none")
                     EXCEPT !.calls = IF weVote THEN v.calls ELSE <<>>]

ReceiveVoteSet(n) ==
    /\ \E m \in Inbound(n, "voteset") :
       LET handled(fn) == handleVoteSetChannelMessage(state[n], commitRoutines[n], n,
                              m.sender, m.vs, cfg.FnVoteSigningThreshold, getValidatorSet,
                              now, fn.result, fn.message)
           first == [result |-> "ok", message |-> "mA"]
           \* Fn is called only on the path that votes
       IN \E fn \in IF handled(first).voted = "none" THEN {first} ELSE FnObservations :
          /\ \E eff \in {handled(fn)} :
                /\ state' = [state EXCEPT ![n] = eff.state]
                /\ commitRoutines' = [commitRoutines EXCEPT ![n] = eff.routines]
                /\ network' \in Enqueue(network \ {m}, eff.sent)
                /\ lastOp' = IF /\ eff.state = state[n]
                                /\ eff.routines = commitRoutines[n]
                                /\ eff.sent = {}
                              THEN lastOp
                              ELSE [Op("voteset", n, eff.outcome, Nil, state[n].CurrentNonces,
                                       Nil, FALSE, eff.sent)
                                    EXCEPT !.sender = m.sender, !.voted = eff.voted]
    /\ UNCHANGED mutexVars
    /\ UNCHANGED <<now, cfg, running, persisted, pending, nextTick, idsUsed, history>>

Next ==
    \/ AdvanceTime
    \/ \E n \in running : ProgressTick(n)
    \/ \E n \in running : Propose(n)
    \/ \E n \in running : ProposeAbandoned(n)
    \/ \E n \in running : ReceiveVoteSet(n)
    \/ \E n \in running : ReceiveMaj23(n)
    \/ \E n \in running : CommitTimerFires(n)
    \/ \E n \in running : HandleCommit(n)

Spec == Init /\ [][Next]_vars

(***************************************************************************)
(* Every node of the network, restarted on a bootstrapped store: the peers *)
(* receive only what the nodes send.                                       *)
(***************************************************************************)
InitNet ==
    /\ cfg \in {c \in Configs : Len(c.validators.addrs) > 1}
    /\ InitOf(Nodes, Nodes)

SpecNet == InitNet /\ [][Next]_vars

(***************************************************************************)
(* Steps, as seen on a pair of states.  A handler that drops its message   *)
(* leaves lastOp alone, so each marker also names something only that      *)
(* operation changes.                                                      *)
(***************************************************************************)
\* node n's progress routine ran its timer case
TickStep(n) ==
    lastOp'.op = "tick" /\ lastOp'.node = n /\ nextTick'[n] # nextTick[n]

\* node n's propose built a vote set and took the mutex
ProposeStep(n) ==
    lastOp'.op = "propose" /\ lastOp'.node = n /\ idsUsed' = idsUsed + 1

\* a commit routine of node n ran handleCommit
CommitStep(n) ==
    lastOp'.op = "commit" /\ lastOp'.node = n /\ commitRoutines'[n] # commitRoutines[n]

\* ... and it committed the vote set that was current
CommittedStep(n) ==
    /\ CommitStep(n)
    /\ state[n].CurrentVoteSets # Nil
    /\ state'[n].PreviousMaj23VoteSets = state[n].CurrentVoteSets
    /\ state'[n].CurrentVoteSets = Nil

(***************************************************************************)
(* The nonce.                                                              *)
(***************************************************************************)
\* C1: over every operation of the reactor CurrentNonces[FnID] never decreases, and
\* each successful commit raises it by exactly 1
NonceNeverDecreasesAndCommitAddsOne ==
    [][\A n \in running :
          /\ state'[n].CurrentNonces >= state[n].CurrentNonces
          /\ (CommittedStep(n) =>
                 state'[n].CurrentNonces = state[n].CurrentNonces + 1)]_vars

\* a commit routine has committed a vote set and the nonce is past its nonce
CommitRaisedNonce ==
    /\ lastOp.op = "commit"
    /\ lastOp.outcome = "committed"
    /\ state[lastOp.node].PreviousMaj23VoteSets = lastOp.vs
    /\ state[lastOp.node].CurrentNonces = lastOp.nonce + 1

(***************************************************************************)
(* Commit of a vote set that converged without an Agree majority.          *)
(***************************************************************************)
\* the vote set handleCommit finds is valid and converged, but its Agree power is
\* below the threshold
ConvergedWithoutAgree(n) ==
    LET currentVoteSet == state[n].CurrentVoteSets
    IN /\ IsValid(currentVoteSet, TRUE, ExpiresIn, getValidatorSet, now)
       /\ HasConverged(currentVoteSet, cfg.FnVoteSigningThreshold, getValidatorSet)
       /\ ~IsAgree(currentVoteSet, cfg.FnVoteSigningThreshold, getValidatorSet)

NoProposalWithoutPreviousMaj23 ==
    [][\A n \in running :
          /\ (state[n].PreviousMaj23VoteSets = Nil =>
                 getNextProposalInfo(state[n].CurrentProposalInfo,
                                     state[n].PreviousMaj23VoteSets, getValidatorSet) = Nil)
          /\ (TickStep(n) /\ state[n].PreviousMaj23VoteSets = Nil) => pending'[n] = Nil
          /\ (pending'[n] # Nil => state'[n].PreviousMaj23VoteSets # Nil)
          /\ (ProposeStep(n) => state[n].PreviousMaj23VoteSets # Nil)]_vars

\* a progress tick has run on a validator that has no previous Maj23 vote set
TickedWithoutPreviousMaj23 ==
    /\ lastOp.op = "tick"
    /\ lastOp.outcome = "eligible"
    /\ areWeValidator(lastOp.node)
    /\ state[lastOp.node].PreviousMaj23VoteSets = Nil
    /\ pending[lastOp.node] = Nil

(***************************************************************************)
(* The single-validator shortcut of propose.                               *)
(***************************************************************************)
\* C8 (as stated): with a signing set of exactly this node, a propose at nonce 1 calls
\* SubmitMultiSignedMessage with the hash of the message and the node's signature
\* alone, and CurrentNonces[FnID] advances from 1 to 2
SingleValidatorProposeAdvancesNonce ==
    [][\A n \in running :
          (/\ ProposeStep(n)
           /\ getValidatorSet.addrs = <<n>>
           /\ nonceOrDefault(state[n]) = StartingNonce) =>
              /\ lastOp'.submit # Nil
              /\ \E message \in Messages :
                    /\ lastOp'.submit.hash = calculateMessageHash(message)
                    /\ lastOp'.submit.signatures = <<OracleSignature(n, message)>>
              /\ state'[n].CurrentNonces = StartingNonce + 1]_vars

\* C9: in the shortcut of propose the new vote set is not stored, no commit timer is
\* started, the state is not persisted and nothing is gossiped: ReactorState after
\* propose equals ReactorState before it
ShortcutLeavesReactorStateAlone ==
    [][\A n \in running :
          (/\ ProposeStep(n)
           /\ IsAgree(lastOp'.vs, cfg.FnVoteSigningThreshold, getValidatorSet)) =>
              /\ state' = state
              /\ state'[n].CurrentVoteSets # lastOp'.vs
              /\ commitRoutines' = commitRoutines
              /\ persisted' = persisted
              /\ ~lastOp'.saved
              /\ network' = network
              /\ lastOp'.sent = {}]_vars

\* propose has just taken the shortcut
ProposedByShortcut ==
    /\ lastOp.op = "propose"
    /\ lastOp.vs # Nil
    /\ IsAgree(lastOp.vs, cfg.FnVoteSigningThreshold, getValidatorSet)
    /\ lastOp.submit = SubmitCall(lastOp.vs)

(***************************************************************************)
(* The submitter of a committed nonce, over the whole network.             *)
(***************************************************************************)
Commits == {h \in history : h.op = "commit"}

\* the validator that handleCommit picks on a copy of a vote set: the Agree voter
\* whose dense rank is nonce mod numberOfAgreeVotes
IsChosenSubmitter(h) ==
    LET validatorIndex == GetByAddress(getValidatorSet, h.node)
    IN /\ validatorIndex # -1
       /\ h.vs.Votes[validatorIndex + 1] = "A"
       /\ h.nonce % NumberOfAgreeVotes(h.vs) =
             GetAgreeVoteIndexForValidatorIndex(h.vs, validatorIndex)

RotationValidatorSets ==
    {ValidatorSetOf(<<1, 2, 3>>, <<2, 1, 1>>), ValidatorSetOf(<<1, 2>>, <<3, 1>>)}

\* the vote sets a store can hold as the last committed one: converged under the set
\* that signed them
StoredMaj23VoteSets(threshold, set) ==
    {vs \in {WithVotes(Core(GenesisVoteSet(set)), v) :
                v \in [1..Len(set.addrs) -> {"U", "A", "D"}]} :
        HasConverged(vs, threshold, set)}

StoredProposalInfos ==
    {[LastActiveValidators |-> l, CurrentTurn |-> t] :
        l \in {<<1, 2, 3>>, <<1, 2>>, <<1, 3>>, <<2, 1>>},
        t \in 0..2} \cup {[LastActiveValidators |-> <<>>, CurrentTurn |-> 0]}

InitRotation ==
    /\ cfg \in {[FnVoteSigningThreshold |-> Maj23SigningThreshold, validators |-> set] :
                   set \in RotationValidatorSets}
    /\ now = 0
    /\ running = {1}
    /\ \E previousValidatorSet \in RotationValidatorSets :
       \E lastMaj23VoteSet \in StoredMaj23VoteSets(cfg.FnVoteSigningThreshold,
                                                   previousValidatorSet) \cup {Nil} :
       \E proposalInfo \in {i \in StoredProposalInfos :
                               i.CurrentTurn < Len(i.LastActiveValidators)
                               \/ i.CurrentTurn = 0} \cup {Nil} :
          state = [n \in Nodes |->
                     IF n = 1
                     THEN [EmptyReactorState EXCEPT
                             !.PreviousMaj23VoteSets = lastMaj23VoteSet,
                             !.CurrentNonces = StartingNonce,
                             !.CurrentProposalInfo = proposalInfo,
                             !.PreviousValidatorSet =
                                 IF lastMaj23VoteSet = Nil THEN Nil
                                 ELSE previousValidatorSet]
                     ELSE EmptyReactorState]
    /\ persisted = state
    /\ MutexesFree
    /\ commitRoutines = [n \in Nodes |-> {}]
    /\ pending = [n \in Nodes |-> Nil]
    /\ nextTick = [n \in Nodes |-> calculateProgressRoutineWakeTime(n, 0)]
    /\ network = {}
    /\ idsUsed = 0
    /\ history = {}
    /\ lastOp = Op("start", 0, "", Nil, 0, Nil, TRUE, {})

NextRotation ==
    \/ AdvanceTime
    \/ \E n \in running : ProgressTick(n)
    \/ \E n \in running : ProposeAbandoned(n)

SpecRotation == InitRotation /\ [][NextRotation]_vars

\* node n's tick computes the next ProposalInfo from a previous Maj23 vote set
RotationStep(n) ==
    /\ TickStep(n)
    /\ lastOp'.outcome # "pending"
    /\ state[n].PreviousMaj23VoteSets # Nil

\* the previous Maj23 vote set was signed by the current validator set
SameValidatorSet(n) ==
    state[n].PreviousMaj23VoteSets.ValidatorsHash = Hash(getValidatorSet)

\* ... and its active validators are the stored lastActiveValidators
SameActiveValidators(n) ==
    /\ state[n].CurrentProposalInfo # Nil
    /\ ActiveValidators(state[n].PreviousMaj23VoteSets) =
          state[n].CurrentProposalInfo.LastActiveValidators

\* C4 (as stated): with the same ValidatorsHash and the same active-validator list the
\* next ProposalInfo keeps the list and has currentTurn = (currentTurn + 1) mod
\* len(lastActiveValidators)
TurnAdvancesOverSameActiveValidators ==
    [][\A n \in running :
          (RotationStep(n) /\ SameValidatorSet(n) /\ SameActiveValidators(n)) =>
              /\ state'[n].CurrentProposalInfo # Nil
              /\ state'[n].CurrentProposalInfo.LastActiveValidators =
                    state[n].CurrentProposalInfo.LastActiveValidators
              /\ state'[n].CurrentProposalInfo.CurrentTurn =
                    (state[n].CurrentProposalInfo.CurrentTurn + 1)
                        % Len(state[n].CurrentProposalInfo.LastActiveValidators)]_vars

\* C5: the rotation resets to currentTurn = 0, with the current validator set's
\* addresses when the previous Maj23's ValidatorsHash differs from the current set's
\* hash, and otherwise with the Maj23's active list when that list differs from the
\* stored lastActiveValidators or no ProposalInfo is stored
RotationResets ==
    [][\A n \in running :
          /\ (RotationStep(n) /\ ~SameValidatorSet(n)) =>
                 state'[n].CurrentProposalInfo =
                     [LastActiveValidators |-> getValidatorSet.addrs, CurrentTurn |-> 0]
          /\ (RotationStep(n) /\ SameValidatorSet(n) /\ ~SameActiveValidators(n)) =>
                 state'[n].CurrentProposalInfo =
                     [LastActiveValidators |->
                          ActiveValidators(state[n].PreviousMaj23VoteSets),
                      CurrentTurn |-> 0]]_vars

\* a tick has reset the rotation to the active list of a Maj23 vote set that only
\* some validators of the current set voted in
RotationResetToActiveList ==
    LET s == state[lastOp.node]
    IN /\ lastOp.op = "tick"
       /\ s.PreviousMaj23VoteSets # Nil
       /\ s.PreviousMaj23VoteSets.ValidatorsHash = Hash(getValidatorSet)
       /\ ActiveValidators(s.PreviousMaj23VoteSets) # getValidatorSet.addrs
       /\ s.CurrentProposalInfo =
             [LastActiveValidators |-> ActiveValidators(s.PreviousMaj23VoteSets),
              CurrentTurn |-> 0]

(***************************************************************************)
(* compareVoteSets on its own: a node that holds any vote set of the first *)
(* round and is handed any other.                                          *)
(***************************************************************************)
\* the proposals of the first round with every combination of votes
FirstRoundVoteSets(set) ==
    {WithVotes(core, v) :
        core \in {c \in RemoteProposals(set) : c.Nonce = StartingNonce},
        v \in [1..Len(set.addrs) -> {"U", "A", "D"}] \ {[p \in 1..Len(set.addrs) |-> "U"]}}

InitCompare ==
    /\ cfg \in {[FnVoteSigningThreshold |-> th,
                  validators |-> ValidatorSetOf(<<1, 2>>, <<3, 1>>)] :
                   th \in {Maj23SigningThreshold, AllSigningThreshold}}
    /\ now = ProgressIntervalInSeconds + 1
    /\ running = {1}
    /\ \E currentVoteSet \in FirstRoundVoteSets(cfg.validators) :
          state = [n \in Nodes |->
                     IF n = 1
                     THEN [SeededReactorState(cfg.validators) EXCEPT
                             !.CurrentVoteSets = currentVoteSet]
                     ELSE EmptyReactorState]
    /\ persisted = state
    /\ MutexesFree
    /\ commitRoutines = [n \in Nodes |-> {}]
    /\ pending = [n \in Nodes |-> Nil]
    /\ nextTick = [n \in Nodes |-> calculateProgressRoutineWakeTime(n, now)]
    /\ \E remoteVoteSet \in FirstRoundVoteSets(cfg.validators) :
          network = Send("voteset", 2, {1}, remoteVoteSet)
    /\ idsUsed = 0
    /\ history = {}
    /\ lastOp = Op("start", 0, "", Nil, 0, Nil, TRUE, {})

\* what the caller of compareVoteSets does with its result
ComparisonName(cmp) ==
    CASE cmp = 1 -> "replace"
      [] cmp = 0 -> "merge"
      [] OTHER -> "keep"

\* the call of compareVoteSets in handleVoteSetChannelMessage, on a queued message
CompareVoteSets(n) ==
    /\ lastOp.op = "start"
    /\ \E m \in network :
          /\ m.to = n
          /\ lastOp' = Op("compare", n,
                          ComparisonName(compareVoteSets(m.vs, state[n].CurrentVoteSets,
                                                         state[n].CurrentNonces,
                                                         cfg.FnVoteSigningThreshold,
                                                         getValidatorSet)),
                          m.vs, state[n].CurrentNonces, Nil, FALSE, {})
    /\ UNCHANGED mutexVars
    /\ UNCHANGED <<now, cfg, running, state, persisted, commitRoutines, pending, nextTick,
                   network, idsUsed, history>>

NextCompare == \E n \in running : CompareVoteSets(n)

SpecCompare == InitCompare /\ [][NextCompare]_vars

\* the tie-break as stated: more total votes, then more Agree votes, then the older
\* CreationTime; an exact tie keeps the local vote set
StatedTieBreak(local, remote) ==
    IF NumberOfVotes(remote) # NumberOfVotes(local)
    THEN IF NumberOfVotes(remote) > NumberOfVotes(local) THEN "replace" ELSE "keep"
    ELSE IF NumberOfAgreeVotes(remote) # NumberOfAgreeVotes(local)
    THEN IF NumberOfAgreeVotes(remote) > NumberOfAgreeVotes(local) THEN "replace" ELSE "keep"
    ELSE IF remote.CreationTime < local.CreationTime THEN "replace"
    ELSE "keep"

\* C10 (as stated): for a local and a remote vote set with different IDs that are both
\* agree-threshold-met, or both not, compareVoteSets decides by more total votes, then
\* more Agree votes, then older CreationTime, and keeps the local one on a tie
CompareBreaksTiesAsStated ==
    lastOp.op = "compare" =>
        LET local == state[lastOp.node].CurrentVoteSets
            remote == lastOp.vs
            agreed(vs) == IsAgree(vs, cfg.FnVoteSigningThreshold, getValidatorSet)
        IN (local.ID # remote.ID /\ (agreed(local) <=> agreed(remote))) =>
               lastOp.outcome = StatedTieBreak(local, remote)

(***************************************************************************)
(* NewFnConsensusReactor on its own, over any configuration.               *)
(***************************************************************************)
RawConfigs ==
    {[FnVoteSigningThreshold |-> th, validators |-> set] :
        th \in {Maj23SigningThreshold, AllSigningThreshold, UnsetSigningThreshold,
                "maj23", "all", "Any"},
        set \in {ValidatorSetOf(<<>>, <<>>), ValidatorSetOf(<<1>>, <<1>>),
                 ValidatorSetOf(<<2>>, <<1>>), ValidatorSetOf(<<3>>, <<1>>),
                 ValidatorSetOf(<<1, 2>>, <<1, 1>>), ValidatorSetOf(<<1, 2>>, <<3, 1>>),
                 ValidatorSetOf(<<1, 3>>, <<1, 1>>), ValidatorSetOf(<<2, 3>>, <<1, 1>>),
                 ValidatorSetOf(<<1, 2, 3>>, <<1, 1, 1>>)}}
    \cup {Nil}

\* ReactorConfig.IsValid
ReactorConfigIsValid(r) ==
    \/ r = Nil
    \/ /\ r.FnVoteSigningThreshold # AllSigningThreshold
       /\ r.FnVoteSigningThreshold # Maj23SigningThreshold

\* NewFnConsensusReactor: [reactor, err]
NewFnConsensusReactor(c) ==
    IF ~ReactorConfigIsValid(c)
    THEN [reactor |-> Nil, err |-> "ErrInvalidReactorConfiguration"]
    ELSE [reactor |-> [cfg |-> c], err |-> "nil"]

InitConfig ==
    /\ cfg \in RawConfigs
    /\ now = 0
    /\ running = {}
    /\ state = [n \in Nodes |-> EmptyReactorState]
    /\ persisted = state
    /\ MutexesFree
    /\ commitRoutines = [n \in Nodes |-> {}]
    /\ pending = [n \in Nodes |-> Nil]
    /\ nextTick = [n \in Nodes |-> 0]
    /\ network = {}
    /\ idsUsed = 0
    /\ history = {}
    /\ lastOp = Op("start", 0, "", Nil, 0, Nil, FALSE, {})

\* node n constructs its reactor; a reactor that was returned is there to be started
Construct(n) ==
    /\ lastOp.op = "start"
    /\ LET new == NewFnConsensusReactor(cfg)
       IN /\ running' = IF new.reactor # Nil THEN {n} ELSE {}
          /\ lastOp' = Op("new", n, new.err, Nil, 0, Nil, FALSE, {})
    /\ UNCHANGED mutexVars
    /\ UNCHANGED <<now, cfg, state, persisted, commitRoutines, pending, nextTick, network,
                   idsUsed, history>>

NextConfig == Construct(1)

SpecConfig == InitConfig /\ [][NextConfig]_vars

\* C7 (as stated): constructing the reactor succeeds only when the threshold is "Maj23"
\* or "All"; for any other threshold NewFnConsensusReactor returns
\* ErrInvalidReactorConfiguration and no reactor
ConstructionNeedsNamedThreshold ==
    lastOp.op = "new" =>
        LET named == /\ cfg # Nil
                     /\ cfg.FnVoteSigningThreshold
                           \in {Maj23SigningThreshold, AllSigningThreshold}
        IN /\ (running # {} => named)
           /\ (~named => lastOp.outcome = "ErrInvalidReactorConfiguration" /\ running = {})

(***************************************************************************)
(* Conflicting proposals: the stores of validators 1 and 2 have diverged,  *)
(* each took itself for the proposer of the first round and proposed, and  *)
(* the two vote sets are on their way to the other validator.              *)
(***************************************************************************)
ConflictConfigs ==
    {[FnVoteSigningThreshold |-> AllSigningThreshold,
      validators |-> ValidatorSetOf(<<1, 2>>, <<3, 1>>)],
     [FnVoteSigningThreshold |-> Maj23SigningThreshold,
      validators |-> ValidatorSetOf(<<1, 2, 3>>, <<1, 1, 1>>)]}

\* the vote set validator n proposed at its tick, observing message
OwnProposal(n, message) ==
    NewVoteSet(n, StartingNonce, ProgressIntervalInSeconds + ProposalDelay(n),
               ownValidatorIndex(n), "ctx", calculateMessageHash(message),
               OracleSignature(n, message), getValidatorSet,
               [LastActiveValidators |-> getValidatorSet.addrs,
                CurrentTurn |-> ownValidatorIndex(n)])

InitConflict ==
    /\ cfg \in ConflictConfigs
    /\ now = ProgressIntervalInSeconds + ProposalDelay(2)
    /\ running = Nodes
    /\ \E m1, m2 \in Messages :
          /\ state = [n \in Nodes |->
                        IF n \in {1, 2}
                        THEN [SeededReactorState(cfg.validators) EXCEPT
                                !.CurrentVoteSets =
                                    OwnProposal(n, IF n = 1 THEN m1 ELSE m2),
                                !.CurrentProposalInfo =
                                    OwnProposal(n, m1).ProposalInfo]
                        ELSE SeededReactorState(cfg.validators)]
          /\ network = Send("voteset", 1, {2}, OwnProposal(1, m1))
                         \cup Send("voteset", 2, {1}, OwnProposal(2, m2))
    /\ persisted = state
    /\ MutexesFree
    /\ commitRoutines = [n \in Nodes |->
                            IF n \in {1, 2}
                            THEN StartRoutine({}, state[n].CurrentVoteSets) ELSE {}]
    /\ pending = [n \in Nodes |-> Nil]
    /\ nextTick = [n \in Nodes |-> calculateProgressRoutineWakeTime(n, now)]
    /\ idsUsed = 2
    /\ history = {}
    /\ lastOp = Op("propose", 2, "proposed", state[2].CurrentVoteSets, StartingNonce, Nil,
                   TRUE, network)

NextConflict ==
    \/ AdvanceTime
    \/ \E n \in running : ProgressTick(n)
    \/ \E n \in running : ReceiveVoteSet(n)
    \/ \E n \in running : ReceiveMaj23(n)
    \/ \E n \in running : CommitTimerFires(n)
    \/ \E n \in running : HandleCommit(n)

SpecConflict == InitConflict /\ [][NextConflict]_vars

\* C11 (as stated): once two validators that proposed different vote sets at the same
\* nonce have exchanged them on the VoteSet channel, every node that holds a vote set
\* holds the same ID
ConflictEndsWithOneID ==
    (/\ network = {}
     /\ state[1].CurrentVoteSets # Nil
     /\ state[2].CurrentVoteSets # Nil) =>
        state[1].CurrentVoteSets.ID = state[2].CurrentVoteSets.ID

(***************************************************************************)
(* The handlers on every message a node can receive in a state.            *)
(***************************************************************************)
\* what handleVoteSetChannelMessage does at node n with message m, Fn observing fn
VoteSetHandled(n, m, fn) ==
    handleVoteSetChannelMessage(state[n], commitRoutines[n], n, m.sender, m.vs,
                                cfg.FnVoteSigningThreshold, getValidatorSet, now,
                                fn.result, fn.message)

ValidVoteSetMessage(m) == IsValid(m.vs, TRUE, ExpiresInForSync, getValidatorSet, now)

\* the message leaves the vote state, the timers and the send queues as they were
VoteSetDropped(n, eff) ==
    /\ eff.state = [state[n] EXCEPT !.CurrentNonces = nonceOrDefault(state[n])]
    /\ eff.routines = commitRoutines[n]
    /\ eff.sent = {}
    /\ eff.voted = "none"

\* the remote vote set is the current one, whatever this node has voted on it since
InstalledAsCurrent(n, m, eff) ==
    /\ eff.state.CurrentVoteSets # Nil
    /\ Core(eff.state.CurrentVoteSets) = Core(m.vs)
    /\ \A p \in 1..Len(m.vs.Votes) :
          \/ eff.state.CurrentVoteSets.Votes[p] = m.vs.Votes[p]
          \/ p = ownValidatorIndex(n) + 1 /\ m.vs.Votes[p] = "U"
    /\ eff.state.CurrentNonces = m.vs.Nonce
    /\ eff.state.CurrentProposalInfo = m.vs.ProposalInfo
    /\ \E r \in eff.routines :
          /\ r = NewRoutine(m.vs)
          /\ \A q \in eff.routines \ {r} : q.fired

\* C12: a valid remote vote set that is not stale and finds no local vote set is
\* installed exactly when its nonce is the current one or it has converged, and is
\* dropped otherwise; installing makes it the current vote set, takes its nonce and
\* its ProposalInfo, and leaves its commit timer as the only one pending
RemoteWithoutLocalInstalledOrDropped ==
    \A n \in running : \A m \in Inbound(n, "voteset") : \A fn \in FnObservations :
        (/\ ValidVoteSetMessage(m)
         /\ state[n].CurrentVoteSets = Nil
         /\ m.vs.Nonce >= nonceOrDefault(state[n])) =>
            IF \/ m.vs.Nonce = nonceOrDefault(state[n])
               \/ HasConverged(m.vs, cfg.FnVoteSigningThreshold, getValidatorSet)
            THEN InstalledAsCurrent(n, m, VoteSetHandled(n, m, fn))
            ELSE VoteSetDropped(n, VoteSetHandled(n, m, fn))

\* C13: a VoteSet-channel message whose nonce is lower than CurrentNonces is dropped:
\* the vote sets, the nonce, the proposal info and the previous maps stay as they
\* are, this node adds no vote, no commit timer is started or cancelled, and nothing
\* is sent
StaleVoteSetDropped ==
    \A n \in running : \A m \in Inbound(n, "voteset") : \A fn \in FnObservations :
        (m.vs.Nonce < state[n].CurrentNonces) =>
            \A eff \in {VoteSetHandled(n, m, fn)} :
                /\ eff.state = state[n]
                /\ eff.routines = commitRoutines[n]
                /\ eff.sent = {}
                /\ eff.voted = "none"

\* a valid vote set of an earlier round reaches a node that holds no vote set: but
\* for its nonce it would be installed
StaleVoteSetArrives ==
    \E n \in running : \E m \in Inbound(n, "voteset") :
        /\ ValidVoteSetMessage(m)
        /\ m.vs.Nonce < state[n].CurrentNonces
        /\ state[n].CurrentVoteSets = Nil
        /\ HasConverged(m.vs, cfg.FnVoteSigningThreshold, getValidatorSet)
        /\ VoteSetHandled(n, m, [result |-> "ok", message |-> "mA"]).outcome = "stale"

(***************************************************************************)
(* Commit routines and the vote set they were started for.                 *)
(***************************************************************************)
\* C14: handleCommit changes ReactorState only when run by the commit routine that
\* was started for the current vote set; a routine whose vote set was replaced
\* changes nothing
CommitOnlyByTheTimerOfTheVoteSet ==
    [][\A n \in running :
          (CommitStep(n) /\ state'[n] # state[n]) =>
              \E r \in commitRoutines[n] \ commitRoutines'[n] :
                  r.startedFor = state[n].CurrentVoteSets.ID]_vars

(***************************************************************************)
(* Gossip after a VoteSet message.                                         *)
(***************************************************************************)
\* the peers the handler sent the current vote set to
GossipedTo(n, eff, peers) == eff.sent = Send("voteset", n, peers, eff.state.CurrentVoteSets)

\* C15: a VoteSet message that changed the local vote set is gossiped to every peer
\* but the sender when this node added no vote of its own, and to every peer when it
\* did; a message that changed nothing is not gossiped (the Fn callbacks succeed)
GossipSkipsSenderUnlessWeVoted ==
    \A n \in running : \A m \in Inbound(n, "voteset") : \A fn \in FnObservations :
        LET eff == VoteSetHandled(n, m, fn)
        IN (eff.voted # "failed") =>
              IF eff.state.CurrentVoteSets = state[n].CurrentVoteSets
              THEN eff.sent = {}
              ELSE IF eff.voted = "none"
              THEN GossipedTo(n, eff, connectedPeers(n) \ {m.sender})
              ELSE GossipedTo(n, eff, connectedPeers(n))

(***************************************************************************)
(* The Maj23 handler on every message a node can receive in a state.       *)
(***************************************************************************)
Maj23Handled(n, m) ==
    handleMaj23VoteSetChannel(state[n], n, m.vs, cfg.FnVoteSigningThreshold,
                              getValidatorSet, now)

ValidWithCurrentSet(m) == IsValid(m.vs, FALSE, ExpiresInForSync, getValidatorSet, now)

ValidWithPreviousSet(n, m) ==
    /\ state[n].PreviousValidatorSet # Nil
    /\ IsValid(m.vs, FALSE, ExpiresInForSync, state[n].PreviousValidatorSet, now)

ValidMaj23Message(n, m) == ValidWithCurrentSet(m) \/ ValidWithPreviousSet(n, m)

\* validatorSetWhichSignedRemoteVoteSet
SignedBy(n, m) ==
    IF ValidWithCurrentSet(m) THEN getValidatorSet ELSE state[n].PreviousValidatorSet

\* valid, no longer active, and converged
AcceptableMaj23(n, m) ==
    /\ ValidMaj23Message(n, m)
    /\ IsExpired(m.vs, ExpiresIn, now)
    /\ HasConverged(m.vs, cfg.FnVoteSigningThreshold, SignedBy(n, m))

\* C16: an acceptable Maj23 vote set whose nonce is not lower than CurrentNonces
\* (default 1) becomes PreviousMaj23VoteSets, CurrentNonces becomes its nonce + 1,
\* PreviousValidatorSet and CurrentProposalInfo are taken from it, and it is sent on
\* the Maj23 channel to every peer but the sender
Maj23InstalledAndRebroadcastToOthers ==
    \A n \in running : \A m \in Inbound(n, "maj23") :
        (AcceptableMaj23(n, m) /\ m.vs.Nonce >= nonceOrDefault(state[n])) =>
            /\ Maj23Handled(n, m).state =
                  [state[n] EXCEPT !.PreviousMaj23VoteSets = m.vs,
                                   !.CurrentNonces = m.vs.Nonce + 1,
                                   !.PreviousValidatorSet = SignedBy(n, m),
                                   !.CurrentProposalInfo = m.vs.ProposalInfo]
            /\ Maj23Handled(n, m).sent =
                  Send("maj23", n, connectedPeers(n) \ {m.sender}, m.vs)

\* C17: the Maj23 handler changes nothing and sends nothing for a vote set that is
\* still active, or not converged, or more than one round behind CurrentNonces, or
\* one round behind while a PreviousMaj23VoteSets is stored; one round behind with
\* none stored, the vote set is stored, CurrentNonces stays and nothing is sent
Maj23DropsAndLateStore ==
    \A n \in running : \A m \in Inbound(n, "maj23") :
        \A eff \in {Maj23Handled(n, m)} : \A currentNonce \in {nonceOrDefault(state[n])} :
           /\ (\/ ~ValidMaj23Message(n, m)
               \/ ~IsExpired(m.vs, ExpiresIn, now)
               \/ ~HasConverged(m.vs, cfg.FnVoteSigningThreshold, SignedBy(n, m))
               \/ m.vs.Nonce < currentNonce - 1
               \/ (/\ m.vs.Nonce = currentNonce - 1
                   /\ state[n].PreviousMaj23VoteSets # Nil)) =>
                   /\ eff.state = state[n]
                   /\ eff.sent = {}
           /\ (/\ AcceptableMaj23(n, m)
               /\ m.vs.Nonce = currentNonce - 1
               /\ state[n].PreviousMaj23VoteSets = Nil) =>
                   /\ eff.state.PreviousMaj23VoteSets = m.vs
                   /\ eff.state.CurrentNonces = state[n].CurrentNonces
                   /\ eff.state.CurrentVoteSets = state[n].CurrentVoteSets
                   /\ eff.sent = {}

\* a converged vote set of the round before reaches a node that stores a different
\* one as PreviousMaj23VoteSets
Maj23OfStoredRoundArrives ==
    \E n \in running : \E m \in Inbound(n, "maj23") :
        /\ AcceptableMaj23(n, m)
        /\ m.vs.Nonce = nonceOrDefault(state[n]) - 1
        /\ state[n].PreviousMaj23VoteSets # Nil
        /\ state[n].PreviousMaj23VoteSets # m.vs
        /\ Maj23Handled(n, m).outcome = "old"

(***************************************************************************)
(* Persistence.  Every state of the model is one in which no operation     *)
(* holds the state mutex, and no SaveReactorState call fails.              *)
(***************************************************************************)
\* C18: whenever the state mutex is free, the saved ReactorState of each node is its
\* ReactorState in memory
PersistedIsInMemoryState ==
    \A n \in running : persisted[n] = state[n]

(***************************************************************************)
(* The progress tick and the vote set in flight.                           *)
(***************************************************************************)
\* C20: a tick moves a current vote set that has expired (now >= CreationTime +
\* ExpiresIn) to PreviousTimedOutVoteSets and clears it; a current vote set that has
\* not expired makes the tick skip the FnID: CurrentVoteSets, CurrentProposalInfo and
\* CurrentNonces stay as they are and propose is not called
TickArchivesExpiredAndSkipsPending ==
    [][\A n \in running :
          (TickStep(n) /\ state[n].CurrentVoteSets # Nil) =>
              IF now >= state[n].CurrentVoteSets.CreationTime + ExpiresIn
              THEN /\ state'[n].PreviousTimedOutVoteSets = state[n].CurrentVoteSets
                   /\ state'[n].CurrentVoteSets = Nil
              ELSE /\ state'[n].CurrentVoteSets = state[n].CurrentVoteSets
                   /\ state'[n].CurrentProposalInfo = state[n].CurrentProposalInfo
                   /\ state'[n].CurrentNonces = state[n].CurrentNonces
                   /\ pending'[n] = Nil]_vars

\* a tick has archived the vote set that was current
TickArchivedExpired ==
    /\ lastOp.op = "tick"
    /\ lastOp.outcome = "archived"
    /\ lastOp.vs # Nil
    /\ now >= lastOp.vs.CreationTime + ExpiresIn
    /\ state[lastOp.node].PreviousTimedOutVoteSets = lastOp.vs

(***************************************************************************)
(* The two mutexes.  Each operation is the sequence of its Lock and Unlock *)
(* calls, one sequence per path through its code; the goroutines run the   *)
(* operations over and over.  peerMapMtx is a sync.RWMutex: a caller of    *)
(* Lock that waits keeps new readers out.                                  *)
(***************************************************************************)
\* progressRoutine, the timer case
progressTickLocks == {<<"stateMtx.Lock", "stateMtx.Unlock">>}

\* propose: returns after an error or the shortcut, or gossips
proposeLocks ==
    {<<"stateMtx.Lock", "stateMtx.Unlock">>,
     <<"stateMtx.Lock", "stateMtx.Unlock", "peerMapMtx.RLock", "peerMapMtx.RUnlock">>}

handleCommitLocks_PeerMapFirst ==
    {<<"peerMapMtx.RLock", "stateMtx.Lock", "stateMtx.Unlock", "peerMapMtx.RUnlock">>}

\* handleCommit: the state mutex is released by defer, after the sends
handleCommitLocks ==
    {<<"stateMtx.Lock", "stateMtx.Unlock">>,
     <<"stateMtx.Lock", "peerMapMtx.RLock", "peerMapMtx.RUnlock", "stateMtx.Unlock">>}

handleMaj23VoteSetChannelLocks ==
    {<<"stateMtx.Lock", "stateMtx.Unlock">>,
     <<"stateMtx.Lock", "peerMapMtx.RLock", "peerMapMtx.RUnlock", "stateMtx.Unlock">>}

handleVoteSetChannelMessageLocks ==
    {<<"stateMtx.Lock", "stateMtx.Unlock">>,
     <<"stateMtx.Lock", "peerMapMtx.RLock", "peerMapMtx.RUnlock", "stateMtx.Unlock">>}

AddPeerLocks == {<<"peerMapMtx.Lock", "peerMapMtx.Unlock">>}

RemovePeerLocks == {<<"peerMapMtx.Lock", "peerMapMtx.Unlock">>}

\* the mutex calls a goroutine can make from its start to its return
LockPaths(g) ==
    CASE g = "progressRoutine" ->
             progressTickLocks \cup {t \o q : t \in progressTickLocks, q \in proposeLocks}
      [] g = "commitRoutine" -> handleCommitLocks
      [] g = "handleVoteSetChannelMessage" -> handleVoteSetChannelMessageLocks
      [] g = "handleMaj23VoteSetChannel" -> handleMaj23VoteSetChannelLocks
      [] g = "AddPeer" -> AddPeerLocks
      [] OTHER -> RemovePeerLocks

\* the mutex call goroutine g makes next
NextCall(g) ==
    IF goroutines[g].pc <= Len(goroutines[g].path)
    THEN goroutines[g].path[goroutines[g].pc] ELSE "none"

\* g's call has returned; after the last one the operation returns
Returned(g) ==
    [goroutines EXCEPT ![g] =
        IF @.pc = Len(@.path) THEN [path |-> <<>>, pc |-> 1]
        ELSE [@ EXCEPT !.pc = @ + 1]]

\* the goroutine starts an operation
Call(g) ==
    /\ goroutines[g].path = <<>>
    /\ \E path \in LockPaths(g) :
          goroutines' = [goroutines EXCEPT ![g] = [path |-> path, pc |-> 1]]
    /\ UNCHANGED <<stateMtx, peerMapMtx>>
    /\ UNCHANGED reactorVars

StateLock(g) ==
    /\ NextCall(g) = "stateMtx.Lock"
    /\ stateMtx = NoGoroutine
    /\ stateMtx' = g
    /\ goroutines' = Returned(g)
    /\ UNCHANGED peerMapMtx
    /\ UNCHANGED reactorVars

StateUnlock(g) ==
    /\ NextCall(g) = "stateMtx.Unlock"
    /\ stateMtx' = NoGoroutine
    /\ goroutines' = Returned(g)
    /\ UNCHANGED peerMapMtx
    /\ UNCHANGED reactorVars

PeerMapRLock(g) ==
    /\ NextCall(g) = "peerMapMtx.RLock"
    /\ peerMapMtx.writer = NoGoroutine
    /\ peerMapMtx.waiting = {}
    /\ peerMapMtx' = [peerMapMtx EXCEPT !.readers = @ \cup {g}]
    /\ goroutines' = Returned(g)
    /\ UNCHANGED stateMtx
    /\ UNCHANGED reactorVars

PeerMapRUnlock(g) ==
    /\ NextCall(g) = "peerMapMtx.RUnlock"
    /\ peerMapMtx' = [peerMapMtx EXCEPT !.readers = @ \ {g}]
    /\ goroutines' = Returned(g)
    /\ UNCHANGED stateMtx
    /\ UNCHANGED reactorVars

\* Lock is called and has to wait
PeerMapLockWaits(g) ==
    /\ NextCall(g) = "peerMapMtx.Lock"
    /\ g \notin peerMapMtx.waiting
    /\ peerMapMtx' = [peerMapMtx EXCEPT !.waiting = @ \cup {g}]
    /\ UNCHANGED <<stateMtx, goroutines>>
    /\ UNCHANGED reactorVars

PeerMapLock(g) ==
    /\ NextCall(g) = "peerMapMtx.Lock"
    /\ peerMapMtx.writer = NoGoroutine
    /\ peerMapMtx.readers = {}
    /\ peerMapMtx' = [peerMapMtx EXCEPT !.writer = g, !.waiting = @ \ {g}]
    /\ goroutines' = Returned(g)
    /\ UNCHANGED stateMtx
    /\ UNCHANGED reactorVars

PeerMapUnlock(g) ==
    /\ NextCall(g) = "peerMapMtx.Unlock"
    /\ peerMapMtx' = [peerMapMtx EXCEPT !.writer = NoGoroutine]
    /\ goroutines' = Returned(g)
    /\ UNCHANGED stateMtx
    /\ UNCHANGED reactorVars

InitLocks ==
    /\ cfg = [FnVoteSigningThreshold |-> Maj23SigningThreshold,
              validators |-> ValidatorSetOf(<<1>>, <<1>>)]
    /\ InitOf({1}, {})

NextLocks ==
    \/ \E g \in Goroutines : Call(g)
    \/ \E g \in Goroutines : StateLock(g)
    \/ \E g \in Goroutines : StateUnlock(g)
    \/ \E g \in Goroutines : PeerMapRLock(g)
    \/ \E g \in Goroutines : PeerMapRUnlock(g)
    \/ \E g \in Goroutines : PeerMapLockWaits(g)
    \/ \E g \in Goroutines : PeerMapLock(g)
    \/ \E g \in Goroutines : PeerMapUnlock(g)

SpecLocks == InitLocks /\ [][NextLocks]_vars

HoldsPeerMapMtx(g) == peerMapMtx.writer = g \/ g \in peerMapMtx.readers

\* g is in a Lock or RLock call that cannot return before h lets go
WaitsFor(g, h) ==
    /\ g # h
    /\ \/ NextCall(g) = "stateMtx.Lock" /\ stateMtx = h
       \/ /\ NextCall(g) = "peerMapMtx.RLock"
          /\ (peerMapMtx.writer = h \/ h \in peerMapMtx.waiting)
       \/ /\ NextCall(g) = "peerMapMtx.Lock"
          /\ (peerMapMtx.writer = h \/ h \in peerMapMtx.readers)

\* the goroutines g waits for, directly or through others
RECURSIVE WaitedFor(_, _)
WaitedFor(found, k) ==
    IF k = 0 THEN found
    ELSE WaitedFor(found \cup {h \in Goroutines : \E g \in found : WaitsFor(g, h)}, k - 1)

Blockers(g) ==
    WaitedFor({h \in Goroutines : WaitsFor(g, h)}, Cardinality(Goroutines))

\* C19: the peer-map mutex is never held by a goroutine that is acquiring the state
\* mutex, and no goroutines wait on each other's mutex
StateMtxBeforePeerMapMtx ==
    /\ \A g \in Goroutines : (NextCall(g) = "stateMtx.Lock") => ~HoldsPeerMapMtx(g)
    /\ \A g \in Goroutines : g \notin Blockers(g)

\* a handler sends under both mutexes while AddPeer waits for the peer map and a
\* third goroutine waits for the state mutex
BothMutexesContended ==
    \E g, h, k \in Goroutines :
        /\ stateMtx = g
        /\ g \in peerMapMtx.readers
        /\ WaitsFor(h, g) /\ NextCall(h) = "stateMtx.Lock"
        /\ WaitsFor(k, g) /\ k \in peerMapMtx.waiting

(***************************************************************************)
(* The vote this node adds in the VoteSet handler.                         *)
(***************************************************************************)
Precedes(calls, first, second) ==
    \E i, j \in 1..Len(calls) : i < j /\ calls[i] = first /\ calls[j] = second

\* C21: when the VoteSet handler votes for this validator, the vote it adds is Agree
\* exactly when the hash of the recomputed message is the hash of the vote set and
\* Disagree otherwise, Fn.MapMessage was called before AddVote, and when
\* GetMessageAndSignature or MapMessage fails AddVote is not called and the slot of
\* this validator stays unvoted
OwnVoteFollowsRecomputedHash ==
    \A n \in running : \A m \in Inbound(n, "voteset") : \A fn \in FnObservations :
        \A eff \in {VoteSetHandled(n, m, fn)} :
            \A own \in {GetByAddress(getValidatorSet, n) + 1} :
                /\ (eff.voted \in {"A", "D"}) =>
                        /\ fn.result = "ok"
                        /\ eff.state.CurrentVoteSets.Votes[own] = eff.voted
                        /\ (eff.voted = "A") <=>
                               (eff.state.CurrentVoteSets.Hash = calculateMessageHash(fn.message))
                        /\ Precedes(eff.calls, "GetMessageAndSignature", "MapMessage")
                        /\ Precedes(eff.calls, "MapMessage", "AddVote")
                /\ (eff.calls # <<>> /\ fn.result # "ok") =>
                        /\ eff.voted = "failed"
                        /\ ~(\E i \in 1..Len(eff.calls) : eff.calls[i] = "AddVote")
                        /\ eff.state.CurrentVoteSets.Votes[own] = "U"
                        /\ eff.sent = {}

\* the handler added a Disagree vote: the node recomputed another message than the
\* one the vote set was proposed with
DisagreeVoteAdded ==
    /\ lastOp.op = "voteset"
    /\ lastOp.voted = "D"
    /\ state[lastOp.node].CurrentVoteSets # Nil
    /\ state[lastOp.node].CurrentVoteSets.Votes[GetByAddress(getValidatorSet, lastOp.node) + 1] = "D"

(***************************************************************************)
(* The slots of a vote set.                                                *)
(***************************************************************************)
SlotsKept(old, new) ==
    \A p \in 1..Len(old.Votes) : (old.Votes[p] # "U") => (new.Votes[p] = old.Votes[p])

\* the vote set the voting block of the handler finds after the switch on
\* compareVoteSets: the remote one, the two merged, or the local one
ComparedVoteSet(n, m, outcome) ==
    IF outcome = "replaced" THEN m.vs
    ELSE IF outcome = "merged" THEN Merge(state[n].CurrentVoteSets, m.vs).vs
    ELSE state[n].CurrentVoteSets

\* C22: a voted slot of the vote set a node holds as current is never overwritten,
\* flipped or reset: across every step that leaves the same vote set (by ID) in
\* CurrentVoteSets, every vote it had is kept, so a slot changes at most once, from
\* unvoted to Agree or Disagree; and wherever the handler adds the vote of this
\* node, the slot of this node was unvoted (HaveWeAlreadySigned false) in the vote
\* set it votes on
VotedSlotsNeverChange ==
    [][\A n \in Nodes :
          /\ (/\ state[n].CurrentVoteSets # Nil
              /\ state'[n].CurrentVoteSets # Nil
              /\ state[n].CurrentVoteSets.ID = state'[n].CurrentVoteSets.ID) =>
                 SlotsKept(state[n].CurrentVoteSets, state'[n].CurrentVoteSets)
          /\ (/\ lastOp'.op = "voteset"
              /\ lastOp'.node = n
              /\ lastOp'.voted \in {"A", "D"}
              /\ state'[n] # state[n]) =>
                 \A m \in Inbound(n, "voteset") : \A fn \in FnObservations :
                    \A eff \in {VoteSetHandled(n, m, fn)} :
                       (eff.voted \in {"A", "D"}) =>
                          \E base \in {ComparedVoteSet(n, m, eff.outcome)} :
                             \E own \in {GetByAddress(getValidatorSet, n)} :
                                /\ ~HaveWeAlreadySigned(base, own)
                                /\ eff.state.CurrentVoteSets =
                                      AddVote(base, base.Nonce, own, eff.voted,
                                              OracleSignature(n, fn.message)).vs]_vars

\* a peer's copy of the current vote set arrives with another vote in a slot that
\* is voted here, and is merged
ConflictingVoteMerged ==
    /\ lastOp.op = "voteset"
    /\ lastOp.outcome = "merged"
    /\ \E n \in {lastOp.node} : \E m \in Inbound(n, "voteset") :
          /\ state[n].CurrentVoteSets # Nil
          /\ m.vs.ID = state[n].CurrentVoteSets.ID
          /\ HaveWeAlreadySigned(state[n].CurrentVoteSets, GetByAddress(getValidatorSet, n))
          /\ \E p \in 1..Len(m.vs.Votes) :
                /\ state[n].CurrentVoteSets.Votes[p] = "A"
                /\ m.vs.Votes[p] = "D"
          /\ VoteSetHandled(n, m, [result |-> "ok", message |-> "mA"]).outcome = "merged"

HandlerStep(n) ==
    /\ lastOp'.op \in {"voteset", "maj23"}
    /\ lastOp'.node = n
    /\ state'[n] # state[n]

\* C24: once CreationTime + ExpiresInForSync of the vote set in CurrentVoteSets has
\* passed, no handler modifies its votes: no vote of a peer is merged into it and
\* the vote of this node is not added to it
NoVoteAfterSyncDeadline ==
    [][\A n \in Nodes :
          (/\ HandlerStep(n)
           /\ state[n].CurrentVoteSets # Nil
           /\ now > state[n].CurrentVoteSets.CreationTime + ExpiresInForSync
           /\ state'[n].CurrentVoteSets # Nil
           /\ state'[n].CurrentVoteSets.ID = state[n].CurrentVoteSets.ID) =>
              (state'[n].CurrentVoteSets.Votes = state[n].CurrentVoteSets.Votes)]_vars

(***************************************************************************)
(* The nonce of the current vote set.                                      *)
(***************************************************************************)
\* C25: whenever a node holds a vote set in CurrentVoteSets, the nonce of the vote
\* set is CurrentNonces (StartingNonce while the map has no entry yet); the Maj23
\* handler, which raises CurrentNonces, leaves no vote set of a lower nonce in
\* CurrentVoteSets
CurrentVoteSetHasCurrentNonce ==
    \A n \in Nodes :
        (state[n].CurrentVoteSets # Nil) =>
            (state[n].CurrentVoteSets.Nonce = nonceOrDefault(state[n]))

(***************************************************************************)
(* The commit routine of the current vote set.                             *)
(***************************************************************************)
LiveRoutines(n) == {r \in commitRoutines[n] : ~r.fired}

\* C26: a vote set in CurrentVoteSets has exactly one live commit routine (not
\* cancelled, not yet fired), whose quit channel is the one registered in
\* commitRoutineQuitCh; and no commit routine fires or is left to fire while
\* CurrentVoteSets is empty
OneLiveRoutinePerCurrentVoteSet ==
    \A n \in running :
        IF state[n].CurrentVoteSets # Nil
        THEN /\ Cardinality(LiveRoutines(n)) = 1
             /\ \A r \in LiveRoutines(n) : r.registered
        ELSE commitRoutines[n] = {}

(***************************************************************************)
(* The ProposalInfo the progress tick stores.                              *)
(***************************************************************************)
\* C27: every non-nil ProposalInfo a progress tick stores in CurrentProposalInfo
\* has a non-empty LastActiveValidators and 0 <= CurrentTurn <
\* Len(LastActiveValidators), so that CurrentProposer names a validator of the list
TickStoresProposalInfoWithProposer ==
    [][\A n \in Nodes :
          (/\ TickStep(n)
           /\ lastOp'.outcome # "pending"
           /\ state'[n].CurrentProposalInfo # Nil) =>
              \A info \in {state'[n].CurrentProposalInfo} :
                 /\ Len(info.LastActiveValidators) > 0
                 /\ 0 <= info.CurrentTurn
                 /\ info.CurrentTurn < Len(info.LastActiveValidators)
                 /\ \E p \in 1..Len(info.LastActiveValidators) :
                        CurrentProposer(info) = info.LastActiveValidators[p]]_vars

(***************************************************************************)
(* One round among honest nodes.  All nodes run on the bootstrapped store, *)
(* Fn observes the same message everywhere, the send queues lose nothing   *)
(* and the clock advances only once the queued messages are handled.  The  *)
(* Go scheduler, the timers and the transport run every goroutine that is  *)
(* ready, hence the weak fairness of each step.  No node sends on the      *)
(* Maj23 channel in such a round (NoMaj23Sent), so its handler has nothing *)
(* to receive.                                                             *)
(***************************************************************************)
LiveConfigs ==
    {[FnVoteSigningThreshold |-> th, validators |-> ValidatorSetOf(<<1, 2>>, <<3, 1>>),
      SendQueueCapacity |-> LiveQueueCapacity] :
        th \in {Maj23SigningThreshold, AllSigningThreshold}}

InitLive ==
    /\ cfg \in LiveConfigs
    /\ InitOf(Nodes, Nodes)

\* what every honest node observes
HonestObservation == [result |-> "ok", message |-> "mA"]

AdvanceTimeDelivered ==
    /\ network = {}
    /\ AdvanceTime

ProposeHonest(n) ==
    /\ Propose(n)
    /\ lastOp'.vs.Hash = calculateMessageHash(HonestObservation.message)

ReceiveVoteSetHonest(n) ==
    /\ ReceiveVoteSet(n)
    /\ \E m \in Inbound(n, "voteset") :
          /\ m \notin network'
          /\ state'[n] = VoteSetHandled(n, m, HonestObservation).state

NextLive ==
    \/ AdvanceTimeDelivered
    \/ \E n \in running : ProgressTick(n)
    \/ \E n \in running : ProposeHonest(n)
    \/ \E n \in running : ReceiveVoteSetHonest(n)
    \/ \E n \in running : CommitTimerFires(n)
    \/ \E n \in running : HandleCommit(n)

FairLive ==
    /\ WF_vars(AdvanceTimeDelivered)
    /\ \A n \in Nodes :
          /\ WF_vars(ProgressTick(n))
          /\ WF_vars(ProposeHonest(n))
          /\ WF_vars(ReceiveVoteSetHonest(n))
          /\ WF_vars(CommitTimerFires(n))
          /\ WF_vars(HandleCommit(n))

SpecLive == InitLive /\ [][NextLive]_vars /\ FairLive

\* the designated proposer's progress tick has handed a ProposalInfo to propose
ProposerTicked == \E n \in Nodes : pending[n] # Nil

\* node n holds the proposer's vote set with the threshold of Agree votes
HoldsAgreed(n) ==
    /\ state[n].CurrentVoteSets # Nil
    /\ state[n].CurrentVoteSets.ID = 1
    /\ IsAgree(state[n].CurrentVoteSets, cfg.FnVoteSigningThreshold, getValidatorSet)

\* node n archived the proposer's vote set and moved to the next nonce
RoundCommitted(n) ==
    /\ state[n].CurrentNonces = StartingNonce + 1
    /\ state[n].PreviousMaj23VoteSets # Nil
    /\ state[n].PreviousMaj23VoteSets.ID = 1
    /\ state[n].CurrentVoteSets = Nil

\* C28: among honest, connected nodes that hold the same ReactorState with a
\* previous Maj23 vote set and observe the same message, with messages delivered
\* before the sync deadline: after the designated proposer's progress tick every
\* node eventually holds the proposer's vote set with the threshold of Agree
\* votes, and eventually every node has archived it in PreviousMaj23VoteSets with
\* CurrentNonces advanced by one
RoundEventuallyCommitted ==
    /\ \A n \in Nodes : ProposerTicked ~> HoldsAgreed(n)
    /\ ProposerTicked ~> (\A n \in Nodes : RoundCommitted(n))

\* the send queues of SpecLive never fill up
QueuesNeverFull == Cardinality(network) < SendQueueCapacity

NoMaj23Sent == \A m \in network : m.channel # "maj23"

====
